---- MODULE Spec2Model ----
(***************************************************************************)
(* Model of the conversation store (app/services/memory_service.py,        *)
(* MemoryService) and of the message pipeline that uses it                 *)
(* (app/services/chatbot.py, ChatbotService; app/services/pdf_processor.py,*)
(* PDFProcessorService.search_documents), and of the application around   *)
(* them: the lifespan and the route handlers of app/main.py and            *)
(* TwilioService (app/services/twilio_service.py).                         *)
(*                                                                         *)
(* Python dictionaries are functions whose DOMAIN is the key set, so       *)
(* "user_id in self.conversation_states" reads u \in DOMAIN ... .          *)
(* Texts are sequences of one-character strings, so that lower(), split()  *)
(* and strip() are computed.  The fixed texts of the code are kept as a    *)
(* text of one opaque symbol.  Confidence values are integer hundredths.   *)
(* datetime.now() is the variable now; a synchronous block of code (no     *)
(* await in it) is one action and reads one value of the clock.            *)
(***************************************************************************)
EXTENDS Integers, Sequences, FiniteSets, TLC

VARIABLES
    conversations,        \* MemoryService.conversations: user -> buffer memory
    conversation_states,  \* MemoryService.conversation_states: user -> state
    is_initialized,       \* ChatbotService.is_initialized
    now,                  \* the clock read by datetime.now()
    tasks,                \* the process_message calls (coroutines) in progress
    returned,             \* the process_message call that returned last, with its response
    appended,             \* history variable: the exchanges added to a user's current session
    steps,                \* history variable: the handler steps granted so far
    store_faults,         \* whether calls into the buffer-memory library may raise
    senders,              \* the users whose messages and calls arrive in this run
    scorer,               \* a _calculate_confidence call: its arguments and its result
    last_call,            \* history variable: the direct MemoryService call that ran last
    formatter,            \* a chat history on its way into a prompt: the list and its text
    app,                  \* the FastAPI application: its lifespan, or none when the
                          \* services are called directly
    http,                 \* the HTTP answer of the route that answered last
    background_tasks,     \* the background tasks the webhook has added, in order
    twilio_service        \* TwilioService: its client and the send_message calls made

vars == <<conversations, conversation_states, is_initialized, now, tasks, returned,
          appended, steps, store_faults, senders, scorer, last_call, formatter, app,
          http, background_tasks, twilio_service>>

----------------------------------------------------------------------------
(* Bounds of the model and configuration values. *)

\* settings.max_conversation_history (scaled down from the default 20)
MaxHistory == 2
\* settings.conversation_timeout in clock ticks (scaled down from 1800 s)
ConversationTimeout == 2
\* the clock stops advancing here
MaxTime == 2
\* handler steps run in one behaviour: a direct MemoryService call that may
\* write is one step, a process_message call is two (up to its await, and
\* from it); the calls that only read cost none and run while steps are left
MaxSteps == 4
\* the longest document list given to _calculate_confidence
MaxDocuments == 6
\* the most words in a question given to _calculate_confidence
MaxQuestionWords == 11
\* the most exchanges in a stored history given to _get_formatted_chat_history
MaxExchanges == 7
\* formatted_history[-5:]
HistoryWindow == 5
\* confidence = 0.3 on the no-documents path, in hundredths
FallbackConfidence == 30

Users == {"u1", "u2"}
Tasks == {1, 2}

Min(a, b) == IF a <= b THEN a ELSE b

----------------------------------------------------------------------------
(* Texts. *)

LowerChar(c) ==
    CASE c = "A" -> "a"
      [] c = "B" -> "b"
      [] c = "C" -> "c"
      [] OTHER -> c

\* str.lower()
Lower(text) == [i \in 1..Len(text) |-> LowerChar(text[i])]

IsSpace(c) == c \in {" ", "\t", "\n"}

\* str.split(): the maximal runs of non-whitespace characters, in order
RECURSIVE SplitFrom(_, _, _)
SplitFrom(text, i, cur) ==
    IF i > Len(text)
    THEN IF cur = <<>> THEN <<>> ELSE <<cur>>
    ELSE IF IsSpace(text[i])
         THEN IF cur = <<>>
              THEN SplitFrom(text, i + 1, <<>>)
              ELSE <<cur>> \o SplitFrom(text, i + 1, <<>>)
         ELSE SplitFrom(text, i + 1, Append(cur, text[i]))

Split(text) == SplitFrom(text, 1, <<>>)

\* str.strip(): leading and trailing whitespace removed
RECURSIVE LStrip(_)
LStrip(text) ==
    IF text # <<>> /\ IsSpace(Head(text)) THEN LStrip(Tail(text)) ELSE text

RECURSIVE RStrip(_)
RStrip(text) ==
    IF text # <<>> /\ IsSpace(text[Len(text)])
    THEN RStrip(SubSeq(text, 1, Len(text) - 1))
    ELSE text

Strip(text) == RStrip(LStrip(text))

SeqToSet(s) == {s[i] : i \in 1..Len(s)}

\* the messages users send
Messages == { <<"a", " ", "b">>, <<"B">> }

\* the ai_response a direct add_message call passes
DirectReply == <<"o", "k">>

\* The fixed texts of chatbot.py
NotAvailableText == <<"I'm sorry, but I'm currently not available. Please try again later.">>
ErrorText == <<"I'm sorry, but I encountered an error while processing your message. Please try again.">>
NoProperResponseText == <<"I'm sorry, I couldn't generate a proper response.">>
BasicFallbackText == <<"I don't have specific information about that in my product knowledge base. Could you please ask about our product features, specifications, or services?">>
NoPreviousConversation == <<"No previous conversation.">>

----------------------------------------------------------------------------
(* MemoryService.  A store is the pair of the two dictionaries; every      *)
(* method is an operator from the store (and the clock) to the store after *)
(* the call and the value returned.  raised says that the call ends by     *)
(* raising instead of returning.                                           *)

Store(c, s) == [conversations |-> c, conversation_states |-> s]

Remove(f, k) == [x \in DOMAIN f \ {k} |-> f[x]]
Put(f, k, v) == [x \in DOMAIN f \cup {k} |-> IF x = k THEN v ELSE f[x]]

StoredMessage(type, content, t) ==
    [type |-> type, content |-> content, timestamp |-> t]

\* an activity test that still holds at the timeout itself
is_conversation_active_inclusive(st, u, t) ==
    IF u \notin DOMAIN st.conversation_states
    THEN FALSE
    ELSE t - st.conversation_states[u].last_activity <= ConversationTimeout

\* _is_conversation_active at time t
is_conversation_active(st, u, t) ==
    IF u \notin DOMAIN st.conversation_states
    THEN FALSE
    ELSE t - st.conversation_states[u].last_activity < ConversationTimeout

\* a clean-up that drops the sessions of all users
cleanup_conversation_of_everyone(st, u) ==
    Store(<<>>, <<>>)

\* _cleanup_conversation
cleanup_conversation(st, u) ==
    Store(IF u \in DOMAIN st.conversations
          THEN Remove(st.conversations, u) ELSE st.conversations,
          IF u \in DOMAIN st.conversation_states
          THEN Remove(st.conversation_states, u) ELSE st.conversation_states)

\* lines 35-46: a new buffer memory and a new ConversationState
CreateMemory(st, u, t) ==
    Store(Put(st.conversations, u, <<>>),
          Put(st.conversation_states, u,
              [messages |-> <<>>, last_activity |-> t]))

\* a get_or_create_memory that returns an existing memory whatever its age
get_or_create_memory_keeps_expired(st, u, t) ==
    IF u \in DOMAIN st.conversations THEN st ELSE CreateMemory(st, u, t)

\* a get_or_create_memory that never finds the existing memory
get_or_create_memory_always_new(st, u, t) ==
    CreateMemory(cleanup_conversation(st, u), u, t)

\* The memory returned is conversations[u] of the store returned.
get_or_create_memory(st, u, t) ==
    IF u \in DOMAIN st.conversations
    THEN IF is_conversation_active(st, u, t)
         THEN st
         ELSE CreateMemory(cleanup_conversation(st, u), u, t)
    ELSE CreateMemory(st, u, t)

\* a trim that keeps the oldest messages instead
TrimMessagesKeepOldest(msgs) ==
    IF Len(msgs) > MaxHistory * 2
    THEN SubSeq(msgs, 1, MaxHistory * 2)
    ELSE msgs

\* a trim whose slice starts one message early
TrimMessagesOneMore(msgs) ==
    IF Len(msgs) > MaxHistory * 2
    THEN SubSeq(msgs, Len(msgs) - MaxHistory * 2, Len(msgs))
    ELSE msgs

\* lines 84-85: keep only the most recent 2 * max_conversation_history messages
TrimMessages(msgs) ==
    IF Len(msgs) > MaxHistory * 2
    THEN SubSeq(msgs, Len(msgs) - MaxHistory * 2 + 1, Len(msgs))
    ELSE msgs

\* an append that leaves last_activity as it was
AppendExchangeKeepsActivity(state, human, ai, t) ==
    [messages |-> state.messages \o
                    << StoredMessage("human", human, t),
                       StoredMessage("ai", ai, t) >>,
     last_activity |-> state.last_activity]

\* an append that stores the reply without the message
AppendExchangeAiOnly(state, human, ai, t) ==
    [messages |-> Append(state.messages, StoredMessage("ai", ai, t)),
     last_activity |-> t]

\* an append that puts the new exchange in front of the older ones
AppendExchangeNewestFirst(state, human, ai, t) ==
    [messages |-> << StoredMessage("human", human, t),
                     StoredMessage("ai", ai, t) >> \o state.messages,
     last_activity |-> t]

\* lines 69-81: the two messages of the exchange, then last_activity
AppendExchange(state, human, ai, t) ==
    [messages |-> state.messages \o
                    << StoredMessage("human", human, t),
                       StoredMessage("ai", ai, t) >>,
     last_activity |-> t]

\* The body of add_message's try block.  fault: the buffer memory raises at
\* line 65, after get_or_create_memory has run.
add_message_try(st, u, human, ai, t, fault) ==
    LET s1 == get_or_create_memory(st, u, t) IN
    IF fault
    THEN [store |-> s1, value |-> FALSE, raised |-> TRUE]
    ELSE
      LET buf == s1.conversations[u] \o
                   << [type |-> "human", content |-> human],
                      [type |-> "ai", content |-> ai] >>
          c2 == Put(s1.conversations, u, buf)
          s2 == IF u \in DOMAIN s1.conversation_states
                THEN LET a == AppendExchange(s1.conversation_states[u], human, ai, t)
                     IN Put(s1.conversation_states, u,
                            [a EXCEPT !.messages = TrimMessages(a.messages)])
                ELSE s1.conversation_states
      IN [store |-> Store(c2, s2), value |-> TRUE, raised |-> FALSE]

\* add_message without its except clause
add_message_no_except(st, u, human, ai, t, fault) ==
    add_message_try(st, u, human, ai, t, fault)

\* add_message: the try block, with "except Exception: return False"
add_message(st, u, human, ai, t, fault) ==
    LET r == add_message_try(st, u, human, ai, t, fault) IN
    IF r.raised THEN [r EXCEPT !.value = FALSE, !.raised = FALSE] ELSE r

\* a history read that creates an empty session for a user it does not know
get_conversation_history_creating(st, u) ==
    LET s1 == IF u \in DOMAIN st.conversation_states
              THEN st
              ELSE CreateMemory(st, u, 0)
    IN [store |-> s1,
        value |-> s1.conversation_states[u].messages,
        raised |-> FALSE]

\* get_conversation_history returns the list held by the state, or []
get_conversation_history(st, u) ==
    [store |-> st,
     value |-> IF u \notin DOMAIN st.conversation_states
               THEN <<>>
               ELSE st.conversation_states[u].messages,
     raised |-> FALSE]

\* get_memory_context: memory.buffer of the memory found or created; fault:
\* reading the buffer raises, caught by "except Exception: return ''"
get_memory_context(st, u, t, fault) ==
    LET s1 == get_or_create_memory(st, u, t) IN
    [store |-> s1,
     value |-> IF fault THEN <<>> ELSE s1.conversations[u],
     raised |-> FALSE]

\* a clear that empties the session and leaves last_activity as it was
clear_conversation_keeps_activity(st, u, t, fault) ==
    [store |-> Store(IF u \in DOMAIN st.conversations
                     THEN Put(st.conversations, u, <<>>) ELSE st.conversations,
                     IF u \in DOMAIN st.conversation_states
                     THEN Put(st.conversation_states, u,
                              [st.conversation_states[u] EXCEPT !.messages = <<>>])
                     ELSE st.conversation_states),
     value |-> TRUE, raised |-> FALSE]

\* clear_conversation; fault: the buffer memory's clear() raises at line 128,
\* caught by "except Exception: return False"
clear_conversation(st, u, t, fault) ==
    IF fault /\ u \in DOMAIN st.conversations
    THEN [store |-> st, value |-> FALSE, raised |-> FALSE]
    ELSE
      LET c2 == IF u \in DOMAIN st.conversations
                THEN Put(st.conversations, u, <<>>) ELSE st.conversations
          s2 == IF u \in DOMAIN st.conversation_states
                THEN Put(st.conversation_states, u,
                         [messages |-> <<>>, last_activity |-> t])
                ELSE st.conversation_states
      IN [store |-> Store(c2, s2), value |-> TRUE, raised |-> FALSE]

\* a selection that takes every session for expired
ExpiredUsersEveryone(st, t) ==
    DOMAIN st.conversation_states

\* lines 173-178: the users whose conversation is not active
ExpiredUsers(st, t) ==
    {u \in DOMAIN st.conversation_states : ~is_conversation_active(st, u, t)}

\* a sweep that removes every session, expired or not
cleanup_every_conversation(st, t) ==
    [store |-> Store(<<>>, <<>>), value |-> "None", raised |-> FALSE]

\* a sweep that deletes the states of the expired users and leaves their
\* buffer memories
cleanup_expired_states_only(st, t) ==
    LET expired_users == ExpiredUsers(st, t) IN
    [store |-> Store(st.conversations,
                     [u \in DOMAIN st.conversation_states \ expired_users |->
                          st.conversation_states[u]]),
     value |-> "None",
     raised |-> FALSE]

\* cleanup_expired_conversations returns None
cleanup_expired_conversations(st, t) ==
    LET expired_users == ExpiredUsers(st, t) IN
    [store |-> Store([u \in DOMAIN st.conversations \ expired_users |->
                          st.conversations[u]],
                     [u \in DOMAIN st.conversation_states \ expired_users |->
                          st.conversation_states[u]]),
     value |-> "None",
     raised |-> FALSE]

get_active_conversations_count(st, t) ==
    [store |-> st,
     value |-> Cardinality({u \in DOMAIN st.conversation_states :
                               is_conversation_active(st, u, t)}),
     raised |-> FALSE]

\* get_conversation_summary; fault: reading memory.buffer raises at line 216,
\* caught by "except Exception: return {status: error}"
get_conversation_summary(st, u, t, fault) ==
    [store |-> st,
     value |->
       IF u \notin DOMAIN st.conversation_states
       THEN [status |-> "not_found", message_count |-> 0]
       ELSE IF fault /\ u \in DOMAIN st.conversations
       THEN [status |-> "error", error |-> "str(e)"]
       ELSE [user_id |-> u,
             message_count |-> Len(st.conversation_states[u].messages),
             last_activity |-> st.conversation_states[u].last_activity,
             is_active |-> is_conversation_active(st, u, t),
             memory_buffer_length |->
                 IF u \in DOMAIN st.conversations
                 THEN Len(st.conversations[u]) ELSE 0],
     raised |-> FALSE]

----------------------------------------------------------------------------
(* The external collaborators: what one call can answer. *)

Doc1 == [page_content |-> <<"a", " ", "c">>,
         metadata |-> [page |-> 0, source |-> "product.pdf"]]
Doc2 == [page_content |-> <<"B", " ", "b">>,
         metadata |-> [page |-> 1]]
Doc3 == [page_content |-> <<"c">>,
         metadata |-> [page |-> 2, source |-> "product.pdf"]]

\* vectorstore.similarity_search(query, k=5): a list of documents, or it raises
RetrieverOutcomes ==
    { [raised |-> FALSE, docs |-> <<>>],
      [raised |-> FALSE, docs |-> <<Doc1, Doc2, Doc3>>],
      [raised |-> TRUE,  docs |-> <<>>] }

\* chat_model.ainvoke(prompt): a message with a content, or it raises
GeneratorOutcomes ==
    { [raised |-> FALSE, content |-> <<" ", "h", "i", " ">>],
      [raised |-> TRUE,  content |-> <<>>] }

\* whether a call into the buffer-memory library raises
StoreOutcomes == IF store_faults THEN {FALSE, TRUE} ELSE {FALSE}

----------------------------------------------------------------------------
(* PDFProcessorService.search_documents and ChatbotService. *)

\* search_documents without its except clause
search_documents_no_except(ro) ==
    [value |-> ro.docs, raised |-> ro.raised]

\* search_documents: "except Exception: return []"
search_documents(ro) ==
    IF ro.raised
    THEN [value |-> <<>>, raised |-> FALSE]
    ELSE [value |-> ro.docs, raised |-> FALSE]

LastN(s, n) == IF Len(s) <= n THEN s ELSE SubSeq(s, Len(s) - n + 1, Len(s))

\* a window that takes the oldest pairs
format_history_oldest(history) ==
    LET formatted_history ==
            [k \in 1..(Len(history) \div 2) |->
                [human |-> history[2 * k - 1].content,
                 ai |-> history[2 * k].content]]
    IN SubSeq(formatted_history, 1, Min(HistoryWindow, Len(formatted_history)))

\* lines 165-174: messages i and i+1 for even i, then the last 5 pairs
format_history(history) ==
    LET formatted_history ==
            [k \in 1..(Len(history) \div 2) |->
                [human |-> history[2 * k - 1].content,
                 ai |-> history[2 * k].content]]
    IN LastN(formatted_history, HistoryWindow)

\* _get_formatted_chat_history
get_formatted_chat_history(st, u) ==
    format_history(get_conversation_history(st, u).value)

\* _format_chat_history: the lines that "\n".join puts together
RECURSIVE format_chat_history_lines(_)
format_chat_history_lines(chat_history) ==
    IF chat_history = <<>>
    THEN <<>>
    ELSE << <<"Human: ">> \o Head(chat_history).human,
            <<"Assistant: ">> \o Head(chat_history).ai >>
         \o format_chat_history_lines(Tail(chat_history))

format_chat_history(chat_history) ==
    IF chat_history = <<>>
    THEN <<NoPreviousConversation>>
    ELSE format_chat_history_lines(chat_history)

\* prompt_template.format(context, chat_history, question)
GroundedPrompt(question, documents, chat_history) ==
    [template |-> "prompt_template",
     context |-> [i \in 1..Len(documents) |-> documents[i].page_content],
     chat_history |-> format_chat_history(chat_history),
     question |-> question]

\* fallback_prompt.format(question=message)
FallbackPrompt(message) ==
    [template |-> "fallback_prompt", question |-> message]

Words(text) == SeqToSet(Split(Lower(text)))

\* a score without the final min(0.95, ...)
calculate_confidence_uncapped(documents, question) ==
    IF documents = <<>>
    THEN 0
    ELSE 30 + Len(documents) * 10
         + 2 * Cardinality(Words(question) \cap
                           UNION {Words(documents[i].page_content) :
                                     i \in 1..Len(documents)})

\* a score that compares the words without lower()
calculate_confidence_case_sensitive(documents, question) ==
    IF documents = <<>>
    THEN 0
    ELSE Min(95, Min(80, 30 + Len(documents) * 10)
                 + Min(20, 2 * Cardinality(
                        SeqToSet(Split(question)) \cap
                        UNION {SeqToSet(Split(documents[i].page_content)) :
                                  i \in 1..Len(documents)})))

\* a score whose base starts at 0 instead of 0.3
calculate_confidence_low_base(documents, question) ==
    IF documents = <<>>
    THEN 0
    ELSE Min(95, Min(80, Len(documents) * 10)
                 + Min(20, 2 * Cardinality(
                        Words(question) \cap
                        UNION {Words(documents[i].page_content) :
                                  i \in 1..Len(documents)})))

\* _calculate_confidence, in hundredths
calculate_confidence(documents, question) ==
    IF documents = <<>>
    THEN 0
    ELSE
      LET base_confidence == Min(80, 30 + Len(documents) * 10)
          question_words == Words(question)
          doc_words == UNION {Words(documents[i].page_content) :
                                 i \in 1..Len(documents)}
          keyword_overlap == Cardinality(question_words \cap doc_words)
          keyword_boost == Min(20, keyword_overlap * 2)
      IN Min(95, base_confidence + keyword_boost)

\* line 149: [doc.metadata.get("source", "Unknown") for doc in documents]
SourceIds(documents) ==
    [i \in 1..Len(documents) |->
        IF "source" \in DOMAIN documents[i].metadata
        THEN documents[i].metadata.source
        ELSE "Unknown"]

\* set(sources)
SourcesOf(documents) == SeqToSet(SourceIds(documents))

\* The order in which a set of strings is iterated follows the strings'
\* hashes, which the code does not control: any order of the identifiers.
SourceIdentifiers == {"product.pdf", "Unknown"}
HashOrders ==
    {o \in [1..Cardinality(SourceIdentifiers) -> SourceIdentifiers] :
        \A i, j \in DOMAIN o : o[i] = o[j] => i = j}

\* list(a_set), the set being iterated in the order given
list_of_set(a_set, order) ==
    LET member(x) == x \in a_set IN SelectSeq(order, member)

\* the orders in which the members of a_set can come out of it
IterationOrders(a_set) == {list_of_set(a_set, o) : o \in HashOrders}

\* a source extraction that keeps one entry per document
extract_sources_keeps_duplicates(documents, order) ==
    SourceIds(documents)

\* lines 149-150: the source of every document, duplicates removed
extract_sources(documents, order) ==
    list_of_set(SourcesOf(documents), order)

\* ChatResponse.sources is Optional[List[str]]
NoSources == [none |-> TRUE, items |-> <<>>]
SourceList(items) == [none |-> FALSE, items |-> items]

ChatResponse(response, confidence, sources) ==
    [response |-> response, confidence |-> confidence, sources |-> sources]

\* a grounded path that asks the Generator again, with the fallback prompt,
\* when its first call has failed
generate_response_with_context_retrying(question, documents, chat_history, go, order) ==
    IF go.raised
    THEN [value |-> [response_text |-> BasicFallbackText,
                     confidence |-> 0, sources |-> <<>>,
                     invoked |-> << GroundedPrompt(question, documents,
                                                   chat_history),
                                    FallbackPrompt(question) >>],
          raised |-> FALSE]
    ELSE [value |-> [response_text |-> Strip(go.content),
                     confidence |-> calculate_confidence(documents, question),
                     sources |-> extract_sources(documents, order),
                     invoked |-> << GroundedPrompt(question, documents,
                                                   chat_history) >>],
          raised |-> FALSE]

\* _generate_response_with_context, resumed with the Generator's outcome go;
\* order is the iteration order of the set of sources, invoked the prompts
\* the call has passed to chat_model.ainvoke (line 145)
generate_response_with_context(question, documents, chat_history, go, order) ==
    IF go.raised
    THEN [value |-> [response_text |-> NoProperResponseText,
                     confidence |-> 0, sources |-> <<>>,
                     invoked |-> << GroundedPrompt(question, documents,
                                                   chat_history) >>],
          raised |-> FALSE]
    ELSE [value |-> [response_text |-> Strip(go.content),
                     confidence |-> calculate_confidence(documents, question),
                     sources |-> extract_sources(documents, order),
                     invoked |-> << GroundedPrompt(question, documents,
                                                   chat_history) >>],
          raised |-> FALSE]

\* _generate_fallback_response without its except clause
generate_fallback_response_no_except(message, go) ==
    [value |-> Strip(go.content), raised |-> go.raised,
     invoked |-> << FallbackPrompt(message) >>]

\* _generate_fallback_response, resumed with the Generator's outcome go;
\* invoked: the prompt passed to chat_model.ainvoke (line 247)
generate_fallback_response(message, go) ==
    IF go.raised
    THEN [value |-> BasicFallbackText, raised |-> FALSE,
          invoked |-> << FallbackPrompt(message) >>]
    ELSE [value |-> Strip(go.content), raised |-> FALSE,
          invoked |-> << FallbackPrompt(message) >>]

\* a no-documents path that scores the (empty) documents like the grounded one
NoDocumentsPathScored(message, documents, chat_history, go) ==
    LET f == generate_fallback_response(message, go) IN
    [value |-> [response_text |-> f.value,
                confidence |-> calculate_confidence(documents, message),
                sources |-> <<>>,
                invoked |-> f.invoked],
     raised |-> f.raised]

\* process_message lines 90-94, after the Generator has answered
NoDocumentsPath(message, documents, chat_history, go) ==
    LET f == generate_fallback_response(message, go) IN
    [value |-> [response_text |-> f.value,
                confidence |-> FallbackConfidence,
                sources |-> <<>>,
                invoked |-> f.invoked],
     raised |-> f.raised]

GenerateResponse(message, documents, chat_history, go, order) ==
    IF documents = <<>>
    THEN NoDocumentsPath(message, documents, chat_history, go)
    ELSE generate_response_with_context(message, documents, chat_history, go,
                                        order)

\* the response of process_message's own "except Exception"
ErrorResponse == ChatResponse(ErrorText, 0, NoSources)
\* the response while not is_initialized
NotAvailableResponse == ChatResponse(NotAvailableText, 0, NoSources)

----------------------------------------------------------------------------
(* TwilioService (app/services/twilio_service.py) and the route handlers of *)
(* main.py.  A phone number text is the pair of its "whatsapp:" prefix, if  *)
(* it has one, and the rest; the empty text has neither.                    *)

PhoneText(prefix, number) == [prefix |-> prefix, number |-> number]
EmptyText == PhoneText("", "")

\* main.py line 197
ErrorNoticeText == <<"I'm sorry, I encountered an error. Please try again later.">>

\* The form of a webhook request.  Form(...) makes the four fields required,
\* so form_data (lines 144-149) always holds the four keys;
\* parse_incoming_message tests their values for emptiness.
FormData ==
    [MessageSid : {"", "SM1"},
     From : {EmptyText, PhoneText("whatsapp:", "u1"), PhoneText("", "u2")},
     To : {"", "whatsapp:bot"},
     Body : {<<"B">>}]

\* parse_incoming_message returns None
NoMessage == [none |-> TRUE]

\* a parse that asks for the MessageSid only
parse_incoming_message_sid_only(form_data) ==
    IF form_data.MessageSid = ""
    THEN NoMessage
    ELSE [none |-> FALSE,
          message_sid |-> form_data.MessageSid,
          from_number |-> PhoneText("", form_data.From.number),
          to_number |-> form_data.To,
          body |-> form_data.Body]

\* parse_incoming_message: None unless MessageSid, From and To are all
\* non-empty; the "whatsapp:" prefix is cut off the sender's number
parse_incoming_message(form_data) ==
    IF ~(/\ form_data.MessageSid # ""
         /\ form_data.From # EmptyText
         /\ form_data.To # "")
    THEN NoMessage
    ELSE [none |-> FALSE,
          message_sid |-> form_data.MessageSid,
          from_number |-> IF form_data.From.prefix = "whatsapp:"
                          THEN PhoneText("", form_data.From.number)
                          ELSE form_data.From,
          to_number |-> form_data.To,
          body |-> form_data.Body]

\* whatsapp_webhook, lines 142-161: the answer, and whether
\* process_whatsapp_message was added as a background task
whatsapp_webhook(form_data) ==
    LET message == parse_incoming_message(form_data) IN
    IF message.none
    THEN [status |-> 400, add_task |-> FALSE, message |-> message]
    ELSE [status |-> 200, add_task |-> TRUE, message |-> message]

\* what client.messages.create does: it sends, or it raises
GatewayOutcomes == {"sent", "TwilioException", "Exception"}

\* a send_message call: the number and the body it was made with, whether
\* client.messages.create was called, and the status of the dict returned
SendCall(to_number, message_body, created, status) ==
    [to |-> to_number, body |-> message_body, created |-> created,
     status |-> status]

\* send_message without its except clauses
send_message_no_except(service, to_number, message_body, outcome) ==
    IF service.client = "None"
    THEN [value |-> SendCall(to_number, message_body, FALSE, "error"),
          raised |-> FALSE]
    ELSE
      LET to == IF to_number.prefix # "whatsapp:"
                THEN PhoneText("whatsapp:", to_number.number)
                ELSE to_number
      IN [value |-> SendCall(to, message_body, TRUE,
                             IF outcome = "sent" THEN "sent" ELSE "error"),
          raised |-> outcome # "sent"]

\* send_message: no client, or messages.create with the "whatsapp:" prefix
\* put in front of the number; both except clauses return an error dict
send_message(service, to_number, message_body, outcome) ==
    IF service.client = "None"
    THEN [value |-> SendCall(to_number, message_body, FALSE, "error"),
          raised |-> FALSE]
    ELSE
      LET to == IF to_number.prefix # "whatsapp:"
                THEN PhoneText("whatsapp:", to_number.number)
                ELSE to_number
      IN [value |-> SendCall(to, message_body, TRUE,
                             IF outcome = "sent" THEN "sent" ELSE "error"),
          raised |-> FALSE]

\* process_whatsapp_message, lines 179-200, from the return of
\* process_message on: the send_message calls it makes.  pm is what
\* process_message has returned or that it has raised; o1 and o2 are the
\* outcomes of the gateway for the first and the second call.
process_whatsapp_message(service, message, pm, o1, o2) ==
    IF pm.raised
    THEN << send_message(service, message.from_number, ErrorNoticeText,
                         o1).value >>
    ELSE
      LET s1 == send_message(service, message.from_number,
                             pm.response.response, o1)
      IN IF s1.raised
         THEN << s1.value,
                 send_message(service, message.from_number, ErrorNoticeText,
                              o2).value >>
         ELSE << s1.value >>

\* a request body without a message: data.get("message") is None
NoBody == <<>>

\* chat, lines 229-237: "if not message: raise HTTPException(400)", else the
\* handler calls process_message and returns the response
chat_try(message) ==
    IF message = NoBody
    THEN [raised |-> TRUE, status |-> 400, detail |-> "Missing message",
          calls_process |-> FALSE]
    ELSE [raised |-> FALSE, status |-> 200, detail |-> "",
          calls_process |-> TRUE]

\* chat: lines 239-241, "except Exception as e" catches the HTTPException of
\* line 234 as well and raises HTTPException(500, detail=str(e))
chat(message) ==
    LET r == chat_try(message) IN
    IF r.raised
    THEN [r EXCEPT !.status = 500, !.detail = "str(e)"]
    ELSE r

\* the answer of a route: its status and the request it answers
Answer(route, status, request) ==
    [route |-> route, status |-> status, request |-> request]
NoAnswer == [route |-> "none"]

\* TwilioService(): the client is built when the credentials are set
TwilioService(client) == [client |-> client, calls |-> <<>>]
NoTwilioService == TwilioService("None")

\* a background task: the message it was added with, where it is, the
\* process_message call that runs for it, and the text that call returned
BackgroundTask(message) ==
    [message |-> message, pc |-> "added", slot |-> 0, response |-> <<>>]

----------------------------------------------------------------------------

(* State. *)

TheStore == Store(conversations, conversation_states)

\* The users whose calls may come next.  Users are interchangeable, so the
\* first call of a run that is made for a user is made for u1.
Callers == {u \in senders : u = "u1" \/ steps > 0}

IdleTask == [pc |-> "idle"]

\* A direct call of a MemoryService method: the method, its user, the state
\* the user's session was in when it was called (for the sweep, the users
\* whose sessions were expired), and the value returned.
NoCall == [op |-> "none"]

SessionStateOf(st, u, t) ==
    IF u \notin DOMAIN st.conversation_states THEN "absent"
    ELSE IF is_conversation_active(st, u, t) THEN "active"
    ELSE "expired"

Called(op, u, before, value) ==
    [op |-> op, user |-> u, before |-> before, value |-> value]

\* a _calculate_confidence call with its arguments, before it has run
NotScored(documents, question) ==
    [documents |-> documents, question |-> question,
     called |-> FALSE, confidence |-> 0]
NoneReturned == [task |-> 0]

\* a stored history before _get_formatted_chat_history and
\* _format_chat_history have been applied to it
NotFormatted(history) ==
    [history |-> history, called |-> FALSE,
     chat_history |-> <<>>, history_text |-> <<>>]

Init ==
    /\ conversations = <<>>
    /\ conversation_states = <<>>
    /\ is_initialized = FALSE
    /\ now = 0
    /\ tasks = [p \in Tasks |-> IdleTask]
    /\ returned = NoneReturned
    /\ appended = [u \in Users |-> <<>>]
    /\ steps = 0
    /\ store_faults = FALSE
    /\ senders = Users
    /\ scorer = NotScored(<<>>, <<>>)
    /\ last_call = NoCall
    /\ formatter = NotFormatted(<<>>)
    /\ app = "none"
    /\ http = NoAnswer
    /\ background_tasks = <<>>
    /\ twilio_service = NoTwilioService

\* the same, with a buffer-memory library whose calls may raise
InitFaults ==
    /\ conversations = <<>>
    /\ conversation_states = <<>>
    /\ is_initialized = FALSE
    /\ now = 0
    /\ tasks = [p \in Tasks |-> IdleTask]
    /\ returned = NoneReturned
    /\ appended = [u \in Users |-> <<>>]
    /\ steps = 0
    /\ store_faults = TRUE
    /\ senders = {"u1"}
    /\ scorer = NotScored(<<>>, <<>>)
    /\ last_call = NoCall
    /\ formatter = NotFormatted(<<>>)
    /\ app = "none"
    /\ http = NoAnswer
    /\ background_tasks = <<>>
    /\ twilio_service = NoTwilioService

(* The history variable appended: the exchanges that add_message calls have *)
(* recorded in a user's session since the session was created or cleared.   *)
Exchange(human, ai, t) == [human |-> human, ai |-> ai, at |-> t]

\* the session add_message finds is the one it appends to
SessionContinues(st, u, t) ==
    u \in DOMAIN st.conversations /\ is_conversation_active(st, u, t)

AppendedAfterAdd(g, st, u, e, t) ==
    [g EXCEPT ![u] = IF SessionContinues(st, u, t) THEN Append(@, e) ELSE <<e>>]

AppendedAfterCreate(g, st, u, t) ==
    [g EXCEPT ![u] = IF SessionContinues(st, u, t) THEN @ ELSE <<>>]

\* nothing is remembered of a session that is no longer in the store
AppendedIn(g, st2) ==
    [u \in Users |-> IF u \in DOMAIN st2.conversation_states THEN g[u] ELSE <<>>]

SetStore(st2) ==
    /\ conversations' = st2.conversations
    /\ conversation_states' = st2.conversation_states

----------------------------------------------------------------------------
(* The environment: the clock, start-up, and direct MemoryService calls. *)

Tick ==
    /\ now < MaxTime
    /\ now' = now + 1
    /\ UNCHANGED <<conversations, conversation_states, is_initialized, tasks, returned,
                   appended, steps, store_faults, senders, scorer, last_call,
                   formatter, app, http, background_tasks, twilio_service>>

\* ChatbotService.initialize: is_initialized is set when it succeeds
Initialize ==
    /\ ~is_initialized
    /\ \E ok \in BOOLEAN : is_initialized' = ok
    /\ UNCHANGED <<conversations, conversation_states, now, tasks, returned,
                   appended, steps, store_faults, senders, scorer, last_call,
                   formatter, app, http, background_tasks, twilio_service>>

AddMessage(u) ==
    /\ steps < MaxSteps
    /\ steps' = steps + 1
    /\ \E human \in Messages, fault \in StoreOutcomes :
         LET r == add_message(TheStore, u, human, DirectReply, now, fault) IN
         /\ SetStore(r.store)
         /\ appended' =
              IF r.value = TRUE /\ ~r.raised
              THEN AppendedAfterAdd(appended, TheStore, u,
                                    Exchange(human, DirectReply, now), now)
              ELSE AppendedAfterCreate(appended, TheStore, u, now)
         /\ last_call' = Called("add_message", u,
                                SessionStateOf(TheStore, u, now), r.value)
    /\ UNCHANGED <<is_initialized, now, tasks, returned, store_faults, senders, scorer,
                   formatter, app, http, background_tasks, twilio_service>>

GetConversationHistory(u) ==
    /\ steps < MaxSteps
    /\ LET r == get_conversation_history(TheStore, u) IN
         /\ SetStore(r.store)
         /\ appended' = AppendedIn(appended, r.store)
    /\ UNCHANGED <<is_initialized, now, tasks, returned, steps, store_faults, senders, scorer, last_call,
                   formatter, app, http, background_tasks, twilio_service>>

GetMemoryContext(u) ==
    /\ steps < MaxSteps
    /\ steps' = steps + 1
    /\ \E fault \in StoreOutcomes :
         LET r == get_memory_context(TheStore, u, now, fault) IN
         /\ SetStore(r.store)
         /\ appended' = AppendedAfterCreate(appended, TheStore, u, now)
         /\ last_call' = Called("get_memory_context", u,
                                SessionStateOf(TheStore, u, now), r.value)
    /\ UNCHANGED <<is_initialized, now, tasks, returned, store_faults, senders, scorer,
                   formatter, app, http, background_tasks, twilio_service>>

ClearConversation(u) ==
    /\ steps < MaxSteps
    /\ steps' = steps + 1
    /\ \E fault \in StoreOutcomes :
         LET r == clear_conversation(TheStore, u, now, fault) IN
         /\ SetStore(r.store)
         /\ appended' = IF r.value = TRUE
                        THEN [appended EXCEPT ![u] = <<>>]
                        ELSE appended
         /\ last_call' = Called("clear_conversation", u,
                                SessionStateOf(TheStore, u, now), r.value)
    /\ UNCHANGED <<is_initialized, now, tasks, returned, store_faults, senders, scorer,
                   formatter, app, http, background_tasks, twilio_service>>

CleanupExpiredConversations ==
    /\ steps < MaxSteps
    /\ steps' = steps + 1
    /\ LET r == cleanup_expired_conversations(TheStore, now) IN
         /\ SetStore(r.store)
         /\ appended' = AppendedIn(appended, r.store)
         /\ last_call' = Called("cleanup_expired_conversations", "all",
                                ExpiredUsers(TheStore, now), r.value)
    /\ UNCHANGED <<is_initialized, now, tasks, returned, store_faults, senders, scorer,
                   formatter, app, http, background_tasks, twilio_service>>

GetActiveConversationsCount ==
    /\ steps < MaxSteps
    /\ LET r == get_active_conversations_count(TheStore, now) IN
         /\ SetStore(r.store)
    /\ UNCHANGED <<is_initialized, now, tasks, returned, appended, steps,
                   store_faults, senders, scorer, last_call,
                   formatter, app, http, background_tasks, twilio_service>>

GetConversationSummary(u) ==
    /\ steps < MaxSteps
    /\ \E fault \in StoreOutcomes :
         LET r == get_conversation_summary(TheStore, u, now, fault) IN
         /\ SetStore(r.store)
    /\ UNCHANGED <<is_initialized, now, tasks, returned, appended, steps,
                   store_faults, senders, scorer, last_call,
                   formatter, app, http, background_tasks, twilio_service>>

----------------------------------------------------------------------------
(* ChatbotService.process_message.  The coroutine runs without interruption *)
(* up to "await self.chat_model.ainvoke(prompt)": search_documents is       *)
(* awaited but holds no await of its own (similarity_search is a plain      *)
(* call), so the call does not yield before the Generator is invoked.  It   *)
(* is resumed with the Generator's outcome and then runs to its return.     *)
(* Each half is an operator from the store to the store after it and what   *)
(* the call has produced; the actions below apply them.                     *)

\* a call that has raised has no response
NoResponse == ChatResponse(<<>>, 0, NoSources)

\* a short-circuit that records its reply in the session store
not_initialized_recorded(st, u, message, t) ==
    [store |-> add_message(st, u, message, NotAvailableText, t, FALSE).store,
     suspended |-> FALSE, raised |-> FALSE,
     path |-> "not_available", response |-> NotAvailableResponse,
     chat_history |-> <<>>, relevant_docs |-> <<>>,
     prompt |-> FallbackPrompt(message), retriever_calls |-> 0]

\* lines 75-80: not initialized
not_initialized(st, u, message, t) ==
    [store |-> st, suspended |-> FALSE, raised |-> FALSE,
     path |-> "not_available", response |-> NotAvailableResponse,
     chat_history |-> <<>>, relevant_docs |-> <<>>,
     prompt |-> FallbackPrompt(message), retriever_calls |-> 0]

\* a begin that puts the chat history into the prompt of the no-documents
\* path as well
process_message_begin_try_history_in_fallback(initialized, st, u, message, ro, t) ==
    IF ~initialized
    THEN not_initialized(st, u, message, t)
    ELSE
      LET chat_history == get_formatted_chat_history(st, u)
          sd == search_documents(ro)
          relevant_docs == sd.value
      IN [store |-> st, suspended |-> ~sd.raised, raised |-> sd.raised,
          path |-> IF relevant_docs = <<>> THEN "fallback" ELSE "grounded",
          response |-> NoResponse,
          chat_history |-> chat_history, relevant_docs |-> relevant_docs,
          prompt |-> GroundedPrompt(message, relevant_docs, chat_history),
          retriever_calls |-> 1]

\* lines 75-99 of the try block, up to the await of the Generator; ro is the
\* Retriever's outcome
process_message_begin_try(initialized, st, u, message, ro, t) ==
    IF ~initialized
    THEN not_initialized(st, u, message, t)
    ELSE
      LET chat_history == get_formatted_chat_history(st, u)
          sd == search_documents(ro)
          relevant_docs == sd.value
          prompt == IF relevant_docs = <<>>
                    THEN FallbackPrompt(message)
                    ELSE GroundedPrompt(message, relevant_docs, chat_history)
      IN [store |-> st, suspended |-> ~sd.raised, raised |-> sd.raised,
          path |-> IF relevant_docs = <<>> THEN "fallback" ELSE "grounded",
          response |-> NoResponse,
          chat_history |-> chat_history, relevant_docs |-> relevant_docs,
          prompt |-> prompt, retriever_calls |-> 1]

\* lines 116-121: "except Exception" returns the error response
process_message_begin(initialized, st, u, message, ro, t) ==
    LET r == process_message_begin_try(initialized, st, u, message, ro, t) IN
    IF r.raised
    THEN [r EXCEPT !.raised = FALSE, !.path = "error", !.response = ErrorResponse]
    ELSE r

\* a call that records its exchange and returns without sweeping
process_message_resume_try_no_sweep(st, task, go, order, fault, t) ==
    LET g == GenerateResponse(task.message, task.relevant_docs,
                              task.chat_history, go, order)
        am == add_message(st, task.user, task.message, g.value.response_text,
                          t, fault)
    IN [store |-> am.store, raised |-> g.raised \/ am.raised, path |-> task.path,
        response |-> ChatResponse(g.value.response_text, g.value.confidence,
                                  SourceList(g.value.sources)),
        recorded |-> am.value,
        invoked |-> g.value.invoked]

\* lines 90-114 of the try block, from the Generator's outcome go on; task is
\* the suspended call, order the iteration order of the set of sources
process_message_resume_try(st, task, go, order, fault, t) ==
    LET g == GenerateResponse(task.message, task.relevant_docs,
                              task.chat_history, go, order)
        am == add_message(st, task.user, task.message, g.value.response_text,
                          t, fault)
        cl == cleanup_expired_conversations(am.store, t)
    IN
    IF g.raised
    THEN [store |-> st, raised |-> TRUE, path |-> task.path,
          response |-> NoResponse, recorded |-> FALSE,
          invoked |-> g.value.invoked]
    ELSE IF am.raised
    THEN [store |-> am.store, raised |-> TRUE, path |-> task.path,
          response |-> NoResponse, recorded |-> FALSE,
          invoked |-> g.value.invoked]
    ELSE [store |-> cl.store, raised |-> cl.raised, path |-> task.path,
          response |-> ChatResponse(g.value.response_text, g.value.confidence,
                                    SourceList(g.value.sources)),
          recorded |-> am.value,
          invoked |-> g.value.invoked]

\* lines 116-121: "except Exception" returns the error response
process_message_resume(st, task, go, order, fault, t) ==
    LET r == process_message_resume_try(st, task, go, order, fault, t) IN
    IF r.raised
    THEN [r EXCEPT !.raised = FALSE, !.path = "error", !.response = ErrorResponse]
    ELSE r

\* what a call that returns leaves behind: its arguments, the way it took,
\* the outcomes of its external calls, the number of its search_documents
\* calls, the prompts it has passed to the Generator and the ChatResponse
\* returned
Returned(p, u, message, initialized, r, rr, gr, docs, rc, invoked, ov) ==
    [task |-> p, user |-> u, message |-> message,
     initialized |-> initialized, path |-> r.path,
     retriever_raised |-> rr, generator_raised |-> gr,
     relevant_docs |-> docs, response |-> r.response, raised |-> r.raised,
     retriever_calls |-> rc, generator_calls |-> Len(invoked),
     invoked |-> invoked, overlapped |-> ov]

\* the other calls for u that have started and not returned
Concurrent(p, u) ==
    {q \in Tasks \ {p} :
        tasks[q].pc # "idle" /\ tasks[q].user = u}

\* The call p for u runs from its first line to its await of the Generator
\* or to its return; ro is what the Retriever answers.
Begin(p, u, message, ro) ==
         LET r == process_message_begin(is_initialized, TheStore, u, message,
                                        ro, now)
         IN
         /\ SetStore(r.store)
         /\ appended' = AppendedIn(appended, r.store)
         /\ IF r.suspended
            THEN /\ tasks' =
                      [q \in Tasks |->
                         IF q = p
                         THEN [pc |-> "awaiting_generator", user |-> u,
                               message |-> message, path |-> r.path,
                               chat_history |-> r.chat_history,
                               relevant_docs |-> r.relevant_docs,
                               prompt |-> r.prompt,
                               retriever_raised |-> ro.raised,
                               retriever_calls |-> r.retriever_calls,
                               overlapped |-> Concurrent(p, u) # {}]
                         ELSE IF q \in Concurrent(p, u)
                         THEN [tasks[q] EXCEPT !.overlapped = TRUE]
                         ELSE tasks[q]]
                 /\ UNCHANGED returned
            ELSE /\ returned' = Returned(p, u, message, is_initialized, r,
                                         is_initialized /\ ro.raised, FALSE,
                                         r.relevant_docs, r.retriever_calls,
                                         <<>>, FALSE)
                 /\ tasks' = [tasks EXCEPT ![p] = IdleTask]

\* A call starts in the first free slot and runs to its await or its return.
ProcessMessage(p) ==
    /\ tasks[p].pc = "idle"
    /\ \A q \in Tasks : q < p => tasks[q].pc # "idle"
    /\ steps + 2 <= MaxSteps
    /\ steps' = steps + 2
    /\ \E u \in Callers, message \in Messages, ro \in RetrieverOutcomes :
         Begin(p, u, message, ro)
    /\ UNCHANGED <<is_initialized, now, store_faults, senders, scorer, last_call,
                   formatter, app, http, background_tasks, twilio_service>>

\* The suspended call p is resumed with the Generator's outcome go and runs
\* to its return.
Resume(p, go) ==
    /\ tasks' = [tasks EXCEPT ![p] = IdleTask]
    /\ \E fault \in StoreOutcomes,
          order \in IterationOrders(SourcesOf(tasks[p].relevant_docs)) :
         LET t == tasks[p]
             r == process_message_resume(TheStore, t, go, order, fault, now)
             e == Exchange(t.message, r.response.response, now)
         IN
         /\ SetStore(r.store)
         /\ returned' = Returned(p, t.user, t.message, TRUE, r,
                                 t.retriever_raised, go.raised,
                                 t.relevant_docs, t.retriever_calls,
                                 r.invoked, t.overlapped)
         /\ appended' =
              AppendedIn(IF r.recorded = TRUE
                         THEN AppendedAfterAdd(appended, TheStore, t.user, e, now)
                         ELSE AppendedAfterCreate(appended, TheStore, t.user, now),
                         r.store)
    /\ UNCHANGED <<is_initialized, now, steps, store_faults, senders, scorer, last_call,
                   formatter, app>>

\* The Generator answers or fails; the call runs to its return.
ResumeCall(p) ==
    /\ tasks[p].pc = "awaiting_generator"
    /\ \E go \in GeneratorOutcomes : Resume(p, go)
    /\ UNCHANGED <<http, background_tasks, twilio_service>>

----------------------------------------------------------------------------

Next ==
    \/ Tick
    \/ Initialize
    \/ \E u \in Callers : AddMessage(u)
    \/ \E u \in Callers : GetConversationHistory(u)
    \/ \E u \in Callers : GetMemoryContext(u)
    \/ \E u \in Callers : ClearConversation(u)
    \/ CleanupExpiredConversations
    \/ GetActiveConversationsCount
    \/ \E u \in Callers : GetConversationSummary(u)
    \/ \E p \in Tasks : ProcessMessage(p)
    \/ \E p \in Tasks : ResumeCall(p)

Spec == Init /\ [][Next]_vars

SpecFaults == InitFaults /\ [][Next]_vars

----------------------------------------------------------------------------
(* Progress of a process_message call.  The answer of the Generator is an   *)
(* event of the environment: "await self.chat_model.ainvoke(prompt)" is not *)
(* wrapped in a timeout (no asyncio.wait_for, no timeout argument to        *)
(* ChatOpenAI), so nothing in the code makes it happen.  Once the answer is *)
(* there, the event loop resumes the coroutine: that step is fair.          *)

InitLive ==
    /\ conversations = <<>>
    /\ conversation_states = <<>>
    /\ is_initialized = TRUE
    /\ now = 0
    /\ tasks = [p \in Tasks |-> IdleTask]
    /\ returned = NoneReturned
    /\ appended = [u \in Users |-> <<>>]
    /\ steps = 0
    /\ store_faults = FALSE
    /\ senders = {"u1"}
    /\ scorer = NotScored(<<>>, <<>>)
    /\ last_call = NoCall
    /\ formatter = NotFormatted(<<>>)
    /\ app = "none"
    /\ http = NoAnswer
    /\ background_tasks = <<>>
    /\ twilio_service = NoTwilioService

\* the awaited ainvoke completes, with a message or with an exception
GeneratorAnswers(p) ==
    /\ tasks[p].pc = "awaiting_generator"
    /\ \E go \in GeneratorOutcomes :
          tasks' = [tasks EXCEPT ![p] =
                      [pc |-> "generator_answered", user |-> tasks[p].user,
                       message |-> tasks[p].message, path |-> tasks[p].path,
                       chat_history |-> tasks[p].chat_history,
                       relevant_docs |-> tasks[p].relevant_docs,
                       prompt |-> tasks[p].prompt,
                       retriever_raised |-> tasks[p].retriever_raised,
                       retriever_calls |-> tasks[p].retriever_calls,
                       overlapped |-> tasks[p].overlapped,
                       outcome |-> go]]
    /\ UNCHANGED <<conversations, conversation_states, is_initialized, now, returned,
                   appended, steps, store_faults, senders, scorer, last_call,
                   formatter, app, http, background_tasks, twilio_service>>

\* the event loop resumes the coroutine whose await has completed
ResumeAnswered(p) ==
    /\ tasks[p].pc = "generator_answered"
    /\ Resume(p, tasks[p].outcome)
    /\ UNCHANGED <<http, background_tasks, twilio_service>>

NextLive ==
    \/ Tick
    \/ \E p \in Tasks : ProcessMessage(p)
    \/ \E p \in Tasks : GeneratorAnswers(p)
    \/ \E p \in Tasks : ResumeAnswered(p)

FairLive ==
    /\ WF_vars(Tick)
    /\ \A p \in Tasks : WF_vars(ResumeAnswered(p))

SpecLive == InitLive /\ [][NextLive]_vars /\ FairLive

----------------------------------------------------------------------------
(* The application of main.py.  lifespan builds the services and awaits     *)
(* initialize before any route is served.  The routes and the background    *)
(* task of the webhook are coroutines of one event loop: a coroutine runs   *)
(* until it awaits.  search_documents is awaited, but the call it makes,    *)
(* vectorstore.similarity_search (pdf_processor.py line 102), is a plain    *)
(* call that embeds the query and searches the index without awaiting:      *)
(* while it runs the event loop runs nothing else.                          *)

\* a lifespan that goes on to serve whatever initialize has returned
lifespan_serving_anyway(initialized) == "serving"

\* main.py lines 49-52: "if not initialized: raise RuntimeError(...)"
lifespan(initialized) ==
    IF ~initialized THEN "failed" ELSE "serving"

InitApp ==
    /\ conversations = <<>>
    /\ conversation_states = <<>>
    /\ is_initialized = FALSE
    /\ now = 0
    /\ tasks = [p \in Tasks |-> IdleTask]
    /\ returned = NoneReturned
    /\ appended = [u \in Users |-> <<>>]
    /\ steps = 0
    /\ store_faults = FALSE
    /\ senders = Users
    /\ scorer = NotScored(<<>>, <<>>)
    /\ last_call = NoCall
    /\ formatter = NotFormatted(<<>>)
    /\ app = "starting"
    /\ http = NoAnswer
    /\ background_tasks = <<>>
    /\ twilio_service = NoTwilioService

\* start-up: the services are built (lines 43-46), then initialize succeeds
\* (is_initialized is set) or returns False
Lifespan ==
    /\ app = "starting"
    /\ \E client \in {"Client", "None"} :
          twilio_service' = TwilioService(client)
    /\ \E ok \in BOOLEAN :
          /\ is_initialized' = ok
          /\ app' = lifespan(ok)
    /\ UNCHANGED <<conversations, conversation_states, now, tasks, returned,
                   appended, steps, store_faults, senders, scorer, last_call,
                   formatter, http, background_tasks>>

\* no coroutine is inside a call that does not await
LoopFree == \A q \in Tasks : tasks[q].pc # "in_retriever"

\* the background task that the process_message call in slot p runs for
RunsIn(bt, p) ==
    {i \in DOMAIN bt : bt[i].pc = "running" /\ bt[i].slot = p}

\* process_message(u, message) is called in the first free slot: the call
\* runs into similarity_search, or returns at once when the service is not
\* initialized
StartCall(p, u, message) ==
    /\ tasks[p].pc = "idle"
    /\ \A q \in Tasks : q < p => tasks[q].pc # "idle"
    /\ steps + 2 <= MaxSteps
    /\ steps' = steps + 2
    /\ IF is_initialized
       THEN /\ tasks' = [tasks EXCEPT ![p] =
                           [pc |-> "in_retriever", user |-> u,
                            message |-> message]]
            /\ UNCHANGED <<conversations, conversation_states, returned,
                           appended>>
       ELSE \E ro \in RetrieverOutcomes : Begin(p, u, message, ro)

\* What the caller of process_message does once the call in slot p has
\* returned; bt is the list of background tasks.  process_whatsapp_message
\* goes on to send_message, which holds no await (messages.create is a plain
\* call), so the send is part of the same step; chat returns the response.
Finish(p, bt) ==
    IF tasks'[p].pc # "idle"
    THEN /\ background_tasks' = bt
         /\ UNCHANGED <<http, twilio_service>>
    ELSE IF RunsIn(bt, p) # {}
    THEN LET i == CHOOSE j \in RunsIn(bt, p) : TRUE IN
         \E o1 \in GatewayOutcomes, o2 \in GatewayOutcomes :
            LET sends == process_whatsapp_message(
                             twilio_service, bt[i].message,
                             [raised |-> returned'.raised,
                              response |-> returned'.response], o1, o2)
            IN /\ twilio_service' =
                     [twilio_service EXCEPT !.calls =
                         @ \o [k \in 1..Len(sends) |->
                                  [task |-> i, call |-> sends[k]]]]
               /\ background_tasks' =
                     [bt EXCEPT ![i].pc = "done",
                                ![i].response = returned'.response.response]
               /\ UNCHANGED http
    ELSE /\ http' = Answer("chat", 200,
                           [user_id |-> returned'.user,
                            message |-> returned'.message])
         /\ background_tasks' = bt
         /\ UNCHANGED twilio_service

\* chat (line 236) calls process_message for u
RouteCallFor(p, u) ==
    /\ app = "serving"
    /\ LoopFree
    /\ \E message \in Messages :
          /\ chat(message).calls_process
          /\ StartCall(p, u, message)
    /\ Finish(p, background_tasks)
    /\ UNCHANGED <<is_initialized, now, store_faults, senders, scorer, last_call,
                   formatter, app>>

RouteCall(p) == \E u \in Callers : RouteCallFor(p, u)

\* chat is called without a message: no process_message call is made
ChatWithoutMessage ==
    /\ app = "serving"
    /\ LoopFree
    /\ steps < MaxSteps
    /\ steps' = steps + 1
    /\ \E u \in Callers :
          LET r == chat(NoBody) IN
          /\ ~r.calls_process
          /\ http' = Answer("chat", r.status,
                            [user_id |-> u, message |-> NoBody])
    /\ UNCHANGED <<conversations, conversation_states, is_initialized, now, tasks,
                   returned, appended, store_faults, senders, scorer, last_call,
                   formatter, app, background_tasks, twilio_service>>

\* whatsapp_webhook: the form is parsed; a message is added as a background
\* task and answered 200, a form that does not parse is answered 400
WhatsappWebhook ==
    /\ app = "serving"
    /\ LoopFree
    /\ steps < MaxSteps
    /\ steps' = steps + 1
    /\ \E form_data \in {f \in FormData : f.From.number \in Callers \cup {""}} :
          LET r == whatsapp_webhook(form_data) IN
          /\ http' = Answer("whatsapp_webhook", r.status, form_data)
          /\ background_tasks' =
                IF r.add_task
                THEN Append(background_tasks, BackgroundTask(r.message))
                ELSE background_tasks
    /\ UNCHANGED <<conversations, conversation_states, is_initialized, now, tasks,
                   returned, appended, store_faults, senders, scorer, last_call,
                   formatter, app, twilio_service>>

\* a background task starts: process_whatsapp_message (line 174) calls
\* process_message for the sender of the message, with its body
ProcessWhatsappMessage(p) ==
    /\ app = "serving"
    /\ LoopFree
    /\ \E i \in DOMAIN background_tasks :
          /\ background_tasks[i].pc = "added"
          /\ StartCall(p, background_tasks[i].message.from_number.number,
                       background_tasks[i].message.body)
          /\ Finish(p, [background_tasks EXCEPT ![i].pc = "running",
                                                ![i].slot = p])
    /\ UNCHANGED <<is_initialized, now, store_faults, senders, scorer, last_call,
                   formatter, app>>

\* similarity_search returns or raises; the call runs on to its await of the
\* Generator
RetrieverReturns(p) ==
    /\ tasks[p].pc = "in_retriever"
    /\ \E ro \in RetrieverOutcomes :
          Begin(p, tasks[p].user, tasks[p].message, ro)
    /\ Finish(p, background_tasks)
    /\ UNCHANGED <<is_initialized, now, steps, store_faults, senders, scorer,
                   last_call, formatter, app>>

\* the event loop resumes a call when it is free to; the call runs to its
\* return and its caller goes on
RouteResume(p) ==
    /\ LoopFree
    /\ tasks[p].pc = "awaiting_generator"
    /\ \E go \in GeneratorOutcomes : Resume(p, go)
    /\ Finish(p, background_tasks)

NextApp ==
    \/ Tick
    \/ Lifespan
    \/ \E p \in Tasks : RouteCall(p)
    \/ ChatWithoutMessage
    \/ WhatsappWebhook
    \/ \E p \in Tasks : ProcessWhatsappMessage(p)
    \/ \E p \in Tasks : RetrieverReturns(p)
    \/ \E p \in Tasks : RouteResume(p)

SpecApp == InitApp /\ [][NextApp]_vars

----------------------------------------------------------------------------
(* _calculate_confidence on its own: the arguments are drawn from the sets  *)
(* below and the call is one step.                                          *)

Letters == <<"a", "b", "c", "d", "e", "f", "g", "h", "i", "j", "k", "l">>

\* the i-th word: a letter, repeated once the letters are used up
WordOf(i) ==
    [k \in 1..(((i - 1) \div Len(Letters)) + 1) |->
        Letters[((i - 1) % Len(Letters)) + 1]]

\* " ".join(words)
RECURSIVE JoinWords(_)
JoinWords(words) ==
    IF words = <<>> THEN <<>>
    ELSE IF Len(words) = 1 THEN Head(words)
    ELSE Head(words) \o <<" ">> \o JoinWords(Tail(words))

FirstWords(k) == JoinWords([i \in 1..k |-> WordOf(i)])

\* questions of 0..MaxQuestionWords distinct words, and some with capitals,
\* repeated words, tabs and newlines
Questions ==
    {FirstWords(k) : k \in 0..MaxQuestionWords}
    \cup { <<"A", " ", "a">>, <<" ", "B", "\t", "c", "\n">>, <<"a", "b">> }

PageContents ==
    { <<>>, <<"A", "\n", "C">>, FirstWords(MaxQuestionWords) }

DocumentLists ==
    UNION { [1..n -> {[page_content |-> t, metadata |-> [page |-> 0]] :
                         t \in PageContents}] : n \in 0..MaxDocuments }

InitConfidence ==
    /\ conversations = <<>>
    /\ conversation_states = <<>>
    /\ is_initialized = TRUE
    /\ now = 0
    /\ tasks = [p \in Tasks |-> IdleTask]
    /\ returned = NoneReturned
    /\ appended = [u \in Users |-> <<>>]
    /\ steps = 0
    /\ store_faults = FALSE
    /\ senders = {}
    /\ last_call = NoCall
    /\ formatter = NotFormatted(<<>>)
    /\ app = "none"
    /\ http = NoAnswer
    /\ background_tasks = <<>>
    /\ twilio_service = NoTwilioService
    /\ \E documents \in DocumentLists, question \in Questions :
          scorer = NotScored(documents, question)

CalculateConfidence ==
    /\ ~scorer.called
    /\ scorer' = [scorer EXCEPT
                     !.called = TRUE,
                     !.confidence = calculate_confidence(scorer.documents,
                                                         scorer.question)]
    /\ UNCHANGED <<conversations, conversation_states, is_initialized, now, tasks,
                   returned, appended, steps, store_faults, senders, last_call,
                   formatter, app, http, background_tasks, twilio_service>>

NextConfidence == CalculateConfidence

SpecConfidence == InitConfidence /\ [][NextConfidence]_vars

----------------------------------------------------------------------------
(* The chat history of a prompt on its own: the list that                   *)
(* get_conversation_history returns is drawn from the histories below, and  *)
(* one step applies _get_formatted_chat_history and the prompt's            *)
(* _format_chat_history to it.  With the default max_conversation_history   *)
(* of 20 a stored history holds up to 20 exchanges; the ones drawn here     *)
(* hold up to MaxExchanges.                                                 *)

\* the stored histories of n exchanges: the i-th reply is the i-th word, so
\* that every position of a history can be told from the others
HistoriesOf(n) ==
    { [i \in 1..(2 * n) |->
          IF i % 2 = 1
          THEN StoredMessage("human", f[(i + 1) \div 2], (i + 1) \div 2)
          ELSE StoredMessage("ai", WordOf(i \div 2), i \div 2)] :
      f \in [1..n -> Messages] }

Histories == UNION {HistoriesOf(n) : n \in 0..MaxExchanges}

InitHistory ==
    /\ conversations = <<>>
    /\ conversation_states = <<>>
    /\ is_initialized = TRUE
    /\ now = 0
    /\ tasks = [p \in Tasks |-> IdleTask]
    /\ returned = NoneReturned
    /\ appended = [u \in Users |-> <<>>]
    /\ steps = 0
    /\ store_faults = FALSE
    /\ senders = {}
    /\ scorer = NotScored(<<>>, <<>>)
    /\ last_call = NoCall
    /\ app = "none"
    /\ http = NoAnswer
    /\ background_tasks = <<>>
    /\ twilio_service = NoTwilioService
    /\ \E history \in Histories : formatter = NotFormatted(history)

\* chat_history of line 85 and the chat_history text of the prompt of
\* lines 135-142
FormatChatHistory ==
    /\ ~formatter.called
    /\ LET chat_history == format_history(formatter.history) IN
       formatter' = [formatter EXCEPT
                        !.called = TRUE,
                        !.chat_history = chat_history,
                        !.history_text =
                            GroundedPrompt(<<"B">>, <<Doc1>>,
                                           chat_history).chat_history]
    /\ UNCHANGED <<conversations, conversation_states, is_initialized, now, tasks,
                   returned, appended, steps, store_faults, senders, scorer,
                   last_call, app, http, background_tasks, twilio_service>>

NextHistory == FormatChatHistory

SpecHistory == InitHistory /\ [][NextHistory]_vars

----------------------------------------------------------------------------
(* Properties. *)

\* the stored messages of a sequence of exchanges
ExchangeMessages(es) ==
    [i \in 1..(2 * Len(es)) |->
        IF i % 2 = 1
        THEN StoredMessage("human", es[(i + 1) \div 2].human, es[(i + 1) \div 2].at)
        ELSE StoredMessage("ai", es[i \div 2].ai, es[i \div 2].at)]

\* the step is the return of the suspended call p
Resumes(p) ==
    tasks[p].pc = "awaiting_generator" /\ tasks'[p].pc = "idle"

\* the messages add_message appends to at time t: those of the active session,
\* or none when the session is created anew
MessagesBefore(st, u, t) ==
    IF SessionContinues(st, u, t) THEN st.conversation_states[u].messages ELSE <<>>

\* the stored form of the exchange (human, ai) recorded at t
ExchangePair(human, ai, t) ==
    << StoredMessage("human", human, t), StoredMessage("ai", ai, t) >>

\* C1: after N add_message calls for a user made within the timeout and with
\* no clear in between, the stored history is exactly the min(N, M) most
\* recently appended exchanges, in insertion order.
C1_HistoryIsMostRecent ==
    \A u \in DOMAIN conversation_states :
        conversation_states[u].messages =
            ExchangeMessages(LastN(appended[u], Min(Len(appended[u]), MaxHistory)))

\* more exchanges were appended to a session than the cap retains
C1_Witness ==
    \E u \in DOMAIN conversation_states :
        /\ Len(appended[u]) > MaxHistory
        /\ Len(conversation_states[u].messages) = 2 * MaxHistory

\* C2: for a session last active at t0, get_conversation_history at any time
\* t >= t0 + conversation_timeout returns the empty sequence and removes the
\* session entry.
C2_ExpiredHistoryIsEmpty ==
    \A u \in DOMAIN conversation_states :
        (/\ conversation_states[u].messages # <<>>
         /\ now - conversation_states[u].last_activity >= ConversationTimeout)
        =>  LET r == get_conversation_history(TheStore, u) IN
            /\ r.value = <<>>
            /\ u \notin DOMAIN r.store.conversation_states

\* C3: the return of a process call that overlapped another call for the same
\* user, with the session active and below the cap, extends the user's
\* history by exactly its own exchange and keeps every message already there.
C3_OverlappedCallsAppend ==
    [][\A p \in Tasks :
          (/\ Resumes(p)
           /\ tasks[p].overlapped
           /\ is_conversation_active(TheStore, tasks[p].user, now)
           /\ Len(conversation_states[tasks[p].user].messages) + 2
                 <= 2 * MaxHistory)
          => /\ returned'.task = p
             /\ ~returned'.raised
             /\ tasks[p].user \in DOMAIN conversation_states'
             /\ conversation_states'[tasks[p].user].messages =
                   conversation_states[tasks[p].user].messages \o
                   ExchangePair(tasks[p].message, returned'.response.response, now)
      ]_vars

\* two overlapped calls for one user have both returned and the session holds
\* the exchanges of both
C3_Witness ==
    /\ returned.task # 0
    /\ returned.overlapped
    /\ \A p \in Tasks : tasks[p].pc = "idle"
    /\ Len(appended[returned.user]) = 2
    /\ \A i \in 1..2 : appended[returned.user][i].ai # DirectReply
    /\ conversation_states[returned.user].messages =
          ExchangeMessages(appended[returned.user])

\* C4: process calls for the same user are serialized: no call for a user
\* reads the user's history while another call for that user is between its
\* own history read and its append.
C4_SameUserSerialized ==
    \A p, q \in Tasks :
        (/\ p # q
         /\ tasks[p].pc = "awaiting_generator"
         /\ tasks[q].pc = "awaiting_generator")
        => tasks[p].user # tasks[q].user

C6_NoChunksFallbackConfidence ==
    (/\ returned.task # 0
     /\ returned.initialized
     /\ ~returned.retriever_raised
     /\ returned.relevant_docs = <<>>)
    => /\ returned.response.confidence = FallbackConfidence
       /\ returned.response.sources = SourceList(<<>>)

\* the Retriever returned no chunks and the Generator answered
C6_Witness ==
    /\ returned.task # 0
    /\ returned.initialized
    /\ ~returned.retriever_raised
    /\ ~returned.generator_raised
    /\ returned.relevant_docs = <<>>
    /\ returned.response.response = Strip(<<" ", "h", "i", " ">>)

\* C7: every process call on an initialized orchestrator, whichever path it
\* takes, appends exactly one exchange to the user's session before it
\* returns: the message and the text of the Response it returns.
C7_CallRecordsItsExchange ==
    [][\A p \in Tasks :
          Resumes(p) =>
             /\ returned'.task = p
             /\ ~returned'.raised
             /\ tasks[p].user \in DOMAIN conversation_states'
             /\ conversation_states'[tasks[p].user].messages =
                   LastN(MessagesBefore(TheStore, tasks[p].user, now) \o
                         ExchangePair(tasks[p].message,
                                      returned'.response.response, now),
                         2 * MaxHistory)
      ]_vars

\* a call on the grounded path whose Generator failed has returned, and its
\* degraded reply is the last message of the user's session
C7_Witness ==
    /\ returned.task # 0
    /\ returned.path = "grounded"
    /\ returned.generator_raised
    /\ returned.user \in DOMAIN conversation_states
    /\ LET m == conversation_states[returned.user].messages IN
       /\ Len(m) >= 2
       /\ m[Len(m) - 1].content = returned.message
       /\ m[Len(m)].content = NoProperResponseText
       /\ m[Len(m)].content = returned.response.response

\* C8: while the orchestrator is not initialized, every process call returns
\* the fixed "not available" Response with confidence 0, calls neither the
\* Retriever nor the Generator, and leaves the session store unchanged.
C8_NotInitializedShortCircuit ==
    [][(~is_initialized /\ steps' = steps + 2) =>
          /\ returned'.task # 0
          /\ ~returned'.initialized
          /\ ~returned'.raised
          /\ returned'.response = ChatResponse(NotAvailableText, 0, NoSources)
          /\ returned'.retriever_calls = 0
          /\ returned'.generator_calls = 0
          /\ UNCHANGED <<conversations, conversation_states, tasks>>
      ]_vars

\* a call has short-circuited while the store held an expired session with
\* messages, which is still there
C8_Witness ==
    /\ returned.task # 0
    /\ ~returned.initialized
    /\ returned.response.response = NotAvailableText
    /\ \E u \in DOMAIN conversation_states :
          /\ conversation_states[u].messages # <<>>
          /\ ~is_conversation_active(TheStore, u, now)

\* C9 as stated: a process call during which the Retriever fails returns the
\* degraded Response, the generic apology text with confidence 0.
C9_RetrieverFailureZero ==
    (/\ returned.task # 0
     /\ returned.initialized
     /\ returned.retriever_raised)
    => /\ ~returned.raised
       /\ returned.response.confidence = 0
       /\ returned.response.response = ErrorText

\* C9: a process call during which the Retriever fails does not raise and
\* takes the fallback path, as if no chunk had been found: confidence exactly
\* 0.3, an empty source list, and the Generator's fallback reply or, when the
\* Generator fails too, the static fallback text.
C9_RetrieverFailureIsFallback ==
    (/\ returned.task # 0
     /\ returned.initialized
     /\ returned.retriever_raised)
    => /\ ~returned.raised
       /\ returned.path = "fallback"
       /\ returned.relevant_docs = <<>>
       /\ returned.response.confidence = FallbackConfidence
       /\ returned.response.sources = SourceList(<<>>)
       /\ returned.response.response =
             IF returned.generator_raised
             THEN BasicFallbackText
             ELSE Strip(<<" ", "h", "i", " ">>)

\* the Retriever failed and the Generator answered the fallback prompt
C9_Witness ==
    /\ returned.task # 0
    /\ returned.initialized
    /\ returned.retriever_raised
    /\ ~returned.generator_raised
    /\ returned.response.confidence = FallbackConfidence

\* a text is a finite sequence
IsText(x) == DOMAIN x = 1..Len(x)

WellFormedResponse(r) ==
    /\ DOMAIN r = {"response", "confidence", "sources"}
    /\ IsText(r.response)
    /\ r.confidence \in 0..100
    /\ DOMAIN r.sources = {"none", "items"}

\* C10: none of the public operations raises to its caller: whatever the
\* Retriever, the Generator or the store do, each operation called in any
\* reachable state ends by returning a well-formed Response, boolean, list,
\* count or summary.
C10_NoOperationRaises ==
    /\ \A u \in senders, message \in Messages, ro \in RetrieverOutcomes :
          LET r == process_message_begin(is_initialized, TheStore, u, message,
                                         ro, now) IN
          /\ ~r.raised
          /\ ~r.suspended => WellFormedResponse(r.response)
    /\ \A p \in Tasks, go \in GeneratorOutcomes, fault \in StoreOutcomes,
          order \in HashOrders :
          tasks[p].pc = "awaiting_generator" =>
             LET r == process_message_resume(TheStore, tasks[p], go, order,
                                             fault, now) IN
             /\ ~r.raised
             /\ WellFormedResponse(r.response)
    /\ returned.task # 0 =>
          ~returned.raised /\ WellFormedResponse(returned.response)
    /\ \A u \in senders, fault \in StoreOutcomes :
          /\ \A human \in Messages :
                LET r == add_message(TheStore, u, human, DirectReply, now, fault) IN
                ~r.raised /\ r.value \in BOOLEAN
          /\ LET r == get_conversation_history(TheStore, u) IN
             ~r.raised /\ IsText(r.value)
          /\ LET r == clear_conversation(TheStore, u, now, fault) IN
             ~r.raised /\ r.value \in BOOLEAN
          /\ LET r == get_conversation_summary(TheStore, u, now, fault) IN
             ~r.raised /\ {"status", "message_count"} \cap DOMAIN r.value # {}
    /\ ~cleanup_expired_conversations(TheStore, now).raised
    /\ LET r == get_active_conversations_count(TheStore, now) IN
       ~r.raised /\ r.value \in 0..Cardinality(Users)

\* a call has returned a Response although the Retriever, the Generator and
\* the store all failed during it: nothing was recorded
C10_Witness ==
    /\ store_faults
    /\ returned.task # 0
    /\ returned.retriever_raised
    /\ returned.generator_raised
    /\ returned.user \in DOMAIN conversation_states
    /\ conversation_states[returned.user].messages = <<>>
    /\ WellFormedResponse(returned.response)

\* the words of a text, read off the text directly: the maximal runs of
\* characters that are not whitespace
Tokens(text) ==
    {SubSeq(text, p[1], p[2]) :
        p \in {q \in (1..Len(text)) \X (1..Len(text)) :
                  /\ q[1] <= q[2]
                  /\ \A k \in q[1]..q[2] : text[k] \notin {" ", "\t", "\n"}
                  /\ q[1] = 1 \/ text[q[1] - 1] \in {" ", "\t", "\n"}
                  /\ q[2] = Len(text) \/ text[q[2] + 1] \in {" ", "\t", "\n"}}}

\* the distinct lowercase words of the question found among the lowercase
\* words of any document
ReferenceOverlap(documents, question) ==
    Cardinality({w \in {Lower(x) : x \in Tokens(question)} :
                    \E i \in 1..Len(documents) :
                       \E y \in Tokens(documents[i].page_content) : Lower(y) = w})

\* C11: for every chunk list and every query the confidence lies in
\* [0.0, 0.95], and it is exactly 0.0 when the chunk list is empty.
C11_ConfidenceBounds ==
    scorer.called =>
       /\ scorer.confidence \in 0..95
       /\ scorer.documents = <<>> => scorer.confidence = 0

\* a call with at least five chunks and eight shared words, whose score was
\* held down to 0.95
C11_Witness ==
    /\ scorer.called
    /\ scorer.confidence = 95
    /\ Len(scorer.documents) >= 5
    /\ ReferenceOverlap(scorer.documents, scorer.question) >= 8

\* C12: for every non-empty list of n chunks and every query the confidence
\* is min(0.95, min(0.8, 0.3 + 0.1 n) + min(0.2, 0.02 overlap)), overlap being
\* the number of distinct lowercase query words found among the lowercase
\* words of the chunks; 2 chunks with overlap >= 1 give a value in
\* [0.52, 0.7].
C12_ConfidenceFormula ==
    (scorer.called /\ scorer.documents # <<>>) =>
       LET n == Len(scorer.documents)
           overlap == ReferenceOverlap(scorer.documents, scorer.question)
       IN /\ scorer.confidence =
                Min(95, Min(80, 30 + 10 * n) + Min(20, 2 * overlap))
          /\ (n = 2 /\ overlap >= 1) => scorer.confidence \in 52..70

\* two chunks and a question in capitals that shares a word with them
C12_Witness ==
    /\ scorer.called
    /\ Len(scorer.documents) = 2
    /\ scorer.question = <<"A", " ", "a">>
    /\ ReferenceOverlap(scorer.documents, scorer.question) = 1
    /\ scorer.confidence = 52

\* the step is a direct call of the MemoryService method op
DirectCall(op) ==
    steps' = steps + 1 /\ last_call'.op = op

\* the store after the step
StoreAfter == Store(conversations', conversation_states')

\* C13 as stated: after clear_conversation has returned true the user is
\* Active-empty, whatever the user's state was before (absent, active or
\* expired): an entry exists, it holds no exchange, and it is active.
C13_ClearLeavesActiveEmpty ==
    [][(DirectCall("clear_conversation") /\ last_call'.value = TRUE) =>
          LET u == last_call'.user IN
          /\ u \in DOMAIN conversation_states'
          /\ conversation_states'[u].messages = <<>>
          /\ is_conversation_active(StoreAfter, u, now')
      ]_vars

\* C13: after clear_conversation has returned true, a user who had a session
\* entry (active or expired) is Active-empty: the entry is there, it holds no
\* exchange, its last_activity is the time of the call and it is active; a
\* user who had no entry still has none.
C13_ClearResetsExistingSession ==
    [][(DirectCall("clear_conversation") /\ last_call'.value = TRUE) =>
          LET u == last_call'.user IN
          IF u \in DOMAIN conversation_states
          THEN /\ u \in DOMAIN conversation_states'
               /\ conversation_states'[u] =
                     [messages |-> <<>>, last_activity |-> now]
               /\ conversations'[u] = <<>>
               /\ is_conversation_active(StoreAfter, u, now')
          ELSE /\ u \notin DOMAIN conversation_states'
               /\ u \notin DOMAIN conversations'
      ]_vars

\* an expired session has been cleared and is active and empty
C13_Witness ==
    /\ last_call.op = "clear_conversation"
    /\ last_call.value = TRUE
    /\ last_call.before = "expired"
    /\ last_call.user \in DOMAIN conversation_states
    /\ conversation_states[last_call.user] =
          [messages |-> <<>>, last_activity |-> now]
    /\ is_conversation_active(TheStore, last_call.user, now)

\* C14: is_active(user) is true exactly when a session entry exists for the
\* user and now - last_activity < conversation_timeout; at
\* now - last_activity = conversation_timeout, and for a user without an
\* entry, it is false.  The count of active conversations and the is_active
\* field of a summary agree with it.
C14_ActiveIffWithinTimeout ==
    /\ \A u \in Users :
          /\ is_conversation_active(TheStore, u, now) <=>
                \E v \in DOMAIN conversation_states :
                   /\ v = u
                   /\ now - conversation_states[v].last_activity
                         \in 0..(ConversationTimeout - 1)
          /\ u \notin DOMAIN conversation_states =>
                ~is_conversation_active(TheStore, u, now)
          /\ \A v \in DOMAIN conversation_states :
                (v = u /\ now - conversation_states[v].last_activity
                             = ConversationTimeout)
                => /\ ~is_conversation_active(TheStore, u, now)
                   /\ ~get_conversation_summary(TheStore, u, now, FALSE).value.is_active
    /\ get_active_conversations_count(TheStore, now).value =
          Cardinality({u \in DOMAIN conversation_states :
                          now - conversation_states[u].last_activity
                             < ConversationTimeout})

\* one session is exactly at the timeout and another user has no entry
C14_Witness ==
    /\ \E u \in DOMAIN conversation_states :
          /\ now - conversation_states[u].last_activity = ConversationTimeout
          /\ ~is_conversation_active(TheStore, u, now)
    /\ \E u \in Users :
          u \notin DOMAIN conversation_states /\ ~is_conversation_active(TheStore, u, now)
    /\ last_call.op # "none"

\* C15: a sweep removes every session entry that is not active and neither
\* removes nor alters a session that is active; when it returns, every
\* session left in the store is active.  The same holds of the store when a
\* process call, which ends with a sweep, returns.
C15_SweepRemovesExactlyExpired ==
    [][/\ DirectCall("cleanup_expired_conversations") =>
            /\ DOMAIN conversation_states' \subseteq DOMAIN conversation_states
            /\ DOMAIN conversations' = DOMAIN conversation_states'
            /\ \A u \in DOMAIN conversation_states :
                  IF is_conversation_active(TheStore, u, now)
                  THEN /\ u \in DOMAIN conversation_states'
                       /\ conversation_states'[u] = conversation_states[u]
                       /\ conversations'[u] = conversations[u]
                  ELSE u \notin DOMAIN conversation_states'
            /\ \A u \in DOMAIN conversation_states' :
                  is_conversation_active(StoreAfter, u, now')
       /\ (\E p \in Tasks : Resumes(p)) =>
            \A u \in DOMAIN conversation_states' :
               is_conversation_active(StoreAfter, u, now')
      ]_vars

\* a sweep has removed an expired session and left an active one with its
\* messages
C15_Witness ==
    /\ last_call.op = "cleanup_expired_conversations"
    /\ last_call.before # {}
    /\ \A u \in last_call.before : u \notin DOMAIN conversation_states
    /\ \E u \in DOMAIN conversation_states :
          /\ conversation_states[u].messages # <<>>
          /\ conversation_states[u].last_activity < now
          /\ is_conversation_active(TheStore, u, now)

\* C16: add_message for a user whose session is absent or expired creates a
\* fresh session: afterwards the user's history holds exactly the one new
\* exchange, nothing of the expired session, and the session is active.  The
\* add_message of a returning process call does the same.
C16_AppendAfterExpiryStartsFresh ==
    [][/\ (/\ DirectCall("add_message")
           /\ last_call'.value = TRUE
           /\ ~is_conversation_active(TheStore, last_call'.user, now))
          => LET u == last_call'.user IN
             /\ u \in DOMAIN conversation_states'
             /\ \E human \in Messages :
                   /\ conversation_states'[u].messages =
                         ExchangePair(human, DirectReply, now)
                   /\ conversations'[u] =
                         << [type |-> "human", content |-> human],
                            [type |-> "ai", content |-> DirectReply] >>
             /\ conversation_states'[u].last_activity = now
             /\ is_conversation_active(StoreAfter, u, now')
       /\ \A p \in Tasks :
             (Resumes(p) /\ ~is_conversation_active(TheStore, tasks[p].user, now))
             => /\ tasks[p].user \in DOMAIN conversation_states'
                /\ conversation_states'[tasks[p].user] =
                      [messages |-> ExchangePair(tasks[p].message,
                                                 returned'.response.response, now),
                       last_activity |-> now]
                /\ is_conversation_active(StoreAfter, tasks[p].user, now')
      ]_vars

\* add_message has found an expired session and the user's history is the
\* one exchange of that call
C16_Witness ==
    /\ last_call.op = "add_message"
    /\ last_call.before = "expired"
    /\ last_call.value = TRUE
    /\ last_call.user \in DOMAIN conversation_states
    /\ Len(conversation_states[last_call.user].messages) = 2
    /\ conversation_states[last_call.user].messages[1].timestamp = now
    /\ conversation_states[last_call.user].last_activity = now
    /\ Len(appended[last_call.user]) = 1

\* C17: for each user, over any sequence of operations under a clock that
\* does not go back, the session's last_activity never decreases (it is never
\* ahead of the clock, so a session created anew starts no earlier than the
\* one removed), and every add_message sets it to the current time.
C17_LastActivityMonotonic ==
    [][/\ now' >= now
       /\ \A u \in DOMAIN conversation_states :
             conversation_states[u].last_activity <= now
       /\ \A u \in DOMAIN conversation_states' :
             /\ conversation_states'[u].last_activity <= now'
             /\ u \in DOMAIN conversation_states =>
                   conversation_states'[u].last_activity >=
                      conversation_states[u].last_activity
             /\ u \notin DOMAIN conversation_states =>
                   conversation_states'[u].last_activity = now
       /\ (DirectCall("add_message") /\ last_call'.value = TRUE) =>
             /\ last_call'.user \in DOMAIN conversation_states'
             /\ conversation_states'[last_call'.user].last_activity = now
       /\ \A p \in Tasks :
             Resumes(p) =>
                /\ tasks[p].user \in DOMAIN conversation_states'
                /\ conversation_states'[tasks[p].user].last_activity = now
      ]_vars

\* add_message has moved the last_activity of an active session forward from
\* the time of its first exchange
C17_Witness ==
    /\ last_call.op = "add_message"
    /\ last_call.before = "active"
    /\ last_call.value = TRUE
    /\ last_call.user \in DOMAIN conversation_states
    /\ LET state == conversation_states[last_call.user] IN
       /\ Len(state.messages) = 4
       /\ state.messages[1].timestamp < state.messages[4].timestamp
       /\ state.last_activity = state.messages[4].timestamp
       /\ state.last_activity = now

\* C18: every process call eventually returns a Response and records its
\* turn, even when the Retriever or the Generator never answers: no process
\* call waits forever.
C18_EveryCallReturns ==
    \A p \in Tasks :
        (tasks[p].pc = "awaiting_generator") ~> (tasks[p].pc = "idle")

\* the session of user b is the same before and after the step
SessionUnchanged(b) ==
    /\ b \in DOMAIN conversation_states'
    /\ b \in DOMAIN conversations'
    /\ conversation_states'[b] = conversation_states[b]
    /\ conversations'[b] = conversations[b]

\* C19: an operation for one user (process, add_message, clear, get_history,
\* summary) leaves every other user's active session unchanged; the only
\* effect a process call for user A can have on user B's entry is its removal
\* by the sweep when B's session is already expired.
C19_OtherUsersUntouched ==
    [][/\ \A b \in DOMAIN conversation_states :
             /\ (steps' = steps + 1 /\ last_call'.user \notin {b, "all"})
                   => SessionUnchanged(b)
             /\ (\E p \in Tasks : Resumes(p) /\ tasks[p].user # b)
                   => IF is_conversation_active(TheStore, b, now)
                      THEN SessionUnchanged(b)
                      ELSE /\ b \notin DOMAIN conversation_states'
                           /\ b \notin DOMAIN conversations'
       /\ steps' = steps + 2 => UNCHANGED <<conversations, conversation_states>>
       /\ \A a \in Users :
             /\ get_conversation_history(TheStore, a).store = TheStore
             /\ get_conversation_summary(TheStore, a, now, FALSE).store = TheStore
      ]_vars

\* a process call for one user has returned, and the older session of the
\* other user is still there with its messages
C19_Witness ==
    /\ returned.task # 0
    /\ returned.initialized
    /\ returned.user \in DOMAIN conversation_states
    /\ \E b \in DOMAIN conversation_states :
          /\ b # returned.user
          /\ conversation_states[b].messages # <<>>
          /\ conversation_states[b].last_activity
                < conversation_states[returned.user].last_activity

\* C20: a sweep never deletes a session in the middle of an append.  A step
\* that runs a sweep, on its own or at the end of a process call and whatever
\* other calls are suspended at that moment, removes only sessions that were
\* already expired; the session a returning call has just appended to is
\* there after the call's sweep, with the exchange as its last two messages.
C20_SweepNeverLosesAppend ==
    [][(DirectCall("cleanup_expired_conversations") \/ \E p \in Tasks : Resumes(p))
       => /\ \A u \in DOMAIN conversation_states \ DOMAIN conversation_states' :
                now - conversation_states[u].last_activity >= ConversationTimeout
          /\ \A p \in Tasks :
                Resumes(p) =>
                   /\ tasks[p].user \in DOMAIN conversation_states'
                   /\ LET m == conversation_states'[tasks[p].user].messages IN
                      /\ Len(m) >= 2
                      /\ SubSeq(m, Len(m) - 1, Len(m)) =
                            ExchangePair(tasks[p].message,
                                         returned'.response.response, now)
      ]_vars

\* a call has appended and swept while another call for the same user was
\* suspended, and the exchange is in the store
C20_Witness ==
    /\ returned.task # 0
    /\ returned.initialized
    /\ \E q \in Tasks :
          /\ tasks[q].pc = "awaiting_generator"
          /\ tasks[q].user = returned.user
    /\ returned.user \in DOMAIN conversation_states
    /\ LET m == conversation_states[returned.user].messages IN
       /\ Len(m) >= 2
       /\ m[Len(m)].content = returned.response.response
       /\ m[Len(m)].timestamp = conversation_states[returned.user].last_activity

\* C21: get_history and summary for a user that has no session entry raise
\* nothing, return the empty sequence and the not-found summary with
\* message_count 0, and leave the session store as it is: no entry is created
\* for that user.
C21_UnknownUserReadsNothing ==
    \A u \in Users \ DOMAIN conversation_states :
        /\ LET r == get_conversation_history(TheStore, u) IN
           /\ ~r.raised
           /\ r.value = <<>>
           /\ r.store = TheStore
           /\ u \notin DOMAIN r.store.conversation_states
           /\ u \notin DOMAIN r.store.conversations
        /\ \A fault \in StoreOutcomes :
              LET r == get_conversation_summary(TheStore, u, now, fault) IN
              /\ ~r.raised
              /\ r.value = [status |-> "not_found", message_count |-> 0]
              /\ r.store = TheStore
              /\ u \notin DOMAIN r.store.conversation_states

\* a user's session has been swept away, another user still has one, and the
\* swept user's history reads as empty
C21_Witness ==
    /\ last_call.op = "cleanup_expired_conversations"
    /\ \E u \in last_call.before :
          /\ u \notin DOMAIN conversation_states
          /\ get_conversation_history(TheStore, u).value = <<>>
          /\ get_conversation_summary(TheStore, u, now, FALSE).value.message_count = 0
    /\ \E v \in DOMAIN conversation_states :
          conversation_states[v].messages # <<>>

C23_PromptHistoryIsLastFive ==
    formatter.called =>
       LET n == Len(formatter.history) \div 2
           k == IF n < 5 THEN n ELSE 5
           text == formatter.history_text
       IN IF n = 0
          THEN text = << <<"No previous conversation.">> >>
          ELSE /\ Len(text) = 2 * k
               /\ \A j \in 1..k :
                     LET human == formatter.history[2 * (n - k + j) - 1]
                         ai == formatter.history[2 * (n - k + j)]
                     IN /\ human.type = "human"
                        /\ ai.type = "ai"
                        /\ text[2 * j - 1] = <<"Human: ">> \o human.content
                        /\ text[2 * j] = <<"Assistant: ">> \o ai.content

\* a history of more than five exchanges has been rendered: the text holds
\* five of them, and the first is not the oldest stored
C23_Witness ==
    /\ formatter.called
    /\ Len(formatter.history) \div 2 > 5
    /\ Len(formatter.history_text) = 10
    /\ formatter.history_text[2] # <<"Assistant: ">> \o formatter.history[2].content
    /\ formatter.history_text[10] =
          <<"Assistant: ">> \o formatter.history[Len(formatter.history)].content

\* the sequence a is the end of the sequence b
IsSuffix(a, b) ==
    /\ Len(a) <= Len(b)
    /\ a = SubSeq(b, Len(b) - Len(a) + 1, Len(b))

\* the last two messages of a history, when they are one exchange
NewestExchange(msgs) ==
    IF /\ Len(msgs) >= 2
       /\ msgs[Len(msgs) - 1].type = "human"
       /\ msgs[Len(msgs)].type = "ai"
    THEN SubSeq(msgs, Len(msgs) - 1, Len(msgs))
    ELSE <<>>

\* C24: a recorded exchange is immutable and stored exchanges are never
\* reordered: from any state to the next a user's history changes only by one
\* exchange appended at its end, by whole exchanges dropped from its front, or
\* by being emptied or removed as a whole; every message kept is the message
\* that was stored, in the same order.  A session that appears holds nothing
\* or one exchange.
C24_ExchangesAreImmutable ==
    [][/\ \A u \in DOMAIN conversation_states \cap DOMAIN conversation_states' :
             LET old == conversation_states[u].messages
                 new == conversation_states'[u].messages
             IN /\ \/ IsSuffix(new, old)
                   \/ IsSuffix(new, old \o NewestExchange(new))
                /\ (Len(old) - Len(new)) % 2 = 0
                /\ Len(new) < Len(old) =>
                      \/ new = <<>>
                      \/ Len(new) = 2
                /\ \/ conversations'[u] = conversations[u]
                   \/ conversations'[u] = <<>>
                   \/ /\ Len(conversations'[u]) = 2
                      /\ NewestExchange(conversations'[u]) = conversations'[u]
                   \/ /\ Len(conversations'[u]) = Len(conversations[u]) + 2
                      /\ IsSuffix(conversations[u] \o NewestExchange(conversations'[u]),
                                  conversations'[u])
       /\ \A u \in DOMAIN conversation_states' \ DOMAIN conversation_states :
             LET new == conversation_states'[u].messages
             IN new = <<>> \/ (Len(new) = 2 /\ NewestExchange(new) = new)
      ]_vars

\* an exchange has been appended to a full history: the oldest exchange is
\* gone and the ones kept are as they were recorded
C24_Witness ==
    /\ last_call.op = "add_message"
    /\ last_call.before = "active"
    /\ last_call.user \in DOMAIN conversation_states
    /\ LET u == last_call.user IN
       /\ Len(appended[u]) > MaxHistory
       /\ conversation_states[u].messages[1] =
             StoredMessage("human",
                           appended[u][Len(appended[u]) - MaxHistory + 1].human,
                           appended[u][Len(appended[u]) - MaxHistory + 1].at)
       /\ conversation_states[u].messages[1].timestamp < now

\* C25: on an initialized orchestrator each process call queries the
\* Retriever exactly once and invokes the Generator (chat_model.ainvoke)
\* exactly once, with the grounded prompt when chunks were retrieved and with
\* the fallback prompt when none were: never both, and never a second time.
C25_OneQueryOneGeneration ==
    [][/\ (is_initialized /\ steps' = steps + 2) =>
             \E p \in Tasks :
                /\ tasks[p].pc = "idle"
                /\ tasks'[p].pc = "awaiting_generator"
                /\ tasks'[p].retriever_calls = 1
                /\ tasks'[p].prompt.template =
                      IF tasks'[p].relevant_docs = <<>>
                      THEN "fallback_prompt" ELSE "prompt_template"
                /\ returned' = returned
       /\ \A p \in Tasks :
             Resumes(p) =>
                /\ returned'.task = p
                /\ returned'.retriever_calls = 1
                /\ returned'.generator_calls = 1
                /\ returned'.invoked = << tasks[p].prompt >>
                /\ returned'.invoked[1] =
                      IF tasks[p].relevant_docs = <<>>
                      THEN [template |-> "fallback_prompt",
                            question |-> tasks[p].message]
                      ELSE [template |-> "prompt_template",
                            context |-> [i \in 1..Len(tasks[p].relevant_docs) |->
                                            tasks[p].relevant_docs[i].page_content],
                            chat_history |->
                                format_chat_history(tasks[p].chat_history),
                            question |-> tasks[p].message]
      ]_vars

\* a call whose Generator failed on the grounded prompt has returned: it has
\* made one query and one invocation, and none with the fallback prompt
C25_Witness ==
    /\ returned.task # 0
    /\ returned.initialized
    /\ returned.generator_raised
    /\ returned.relevant_docs # <<>>
    /\ returned.retriever_calls = 1
    /\ returned.generator_calls = 1
    /\ returned.invoked[1].template = "prompt_template"

\* C26: a process call that is waiting on the Retriever or on the Generator
\* does not block other users: while user A's call is inside an external
\* call, a call for a different user B can start whenever the service has a
\* free slot for it.
C26_WaitingCallBlocksNoOne ==
    \A p, q \in Tasks, b \in Callers :
        (/\ app = "serving"
         /\ tasks[p].pc \in {"in_retriever", "awaiting_generator"}
         /\ tasks[p].user # b
         /\ tasks[q].pc = "idle"
         /\ \A r \in Tasks : r < q => tasks[r].pc # "idle"
         /\ steps + 2 <= MaxSteps)
        => ENABLED RouteCallFor(q, b)

\* C27: the service becomes ready to serve only if initialize has succeeded:
\* when it returns false start-up fails and no route is ever served, so
\* is_initialized is true at every process call made through the routes, and
\* once true it never becomes false again.
C27_ServesOnlyWhenInitialized ==
    [][/\ steps' # steps => (app = "serving" /\ is_initialized)
       /\ is_initialized => is_initialized'
       /\ app' # app =>
             /\ app = "starting"
             /\ app' \in {"serving", "failed"}
             /\ app' = "serving" <=> is_initialized'
       /\ app = "serving" => is_initialized
       /\ app = "failed" =>
             /\ ~is_initialized
             /\ returned = NoneReturned
             /\ UNCHANGED <<conversations, conversation_states, is_initialized,
                            tasks, returned, steps>>
       /\ returned'.task # 0 => returned'.initialized
      ]_vars

\* the service is serving and a call made through a route has returned a
\* reply of the Generator
C27_Witness ==
    /\ app = "serving"
    /\ is_initialized
    /\ returned.task # 0
    /\ returned.initialized
    /\ returned.response.response # NotAvailableText
    /\ returned.generator_calls = 1

\* C28: when a message arrives for a user whose session is expired
\* (now - last_activity >= conversation_timeout), the history window that
\* process hands to the prompt is empty: no exchange of the expired session
\* reaches the Generator, whether or not a sweep has run since the expiry.
C28_ExpiredHistoryStaysOutOfPrompt ==
    [][\A p \in Tasks :
          (/\ tasks[p].pc = "idle"
           /\ tasks'[p].pc = "awaiting_generator"
           /\ ~is_conversation_active(TheStore, tasks'[p].user, now))
          => /\ tasks'[p].chat_history = <<>>
             /\ tasks'[p].relevant_docs # <<>> =>
                   tasks'[p].prompt.chat_history = << NoPreviousConversation >>
      ]_vars

\* C29: per-user retained conversation data is bounded by the cap in both
\* per-user stores: after any sequence of add_message calls,
\* conversation_states[user].messages holds at most
\* 2 * max_conversation_history messages and the buffer memory
\* conversations[user] holds at most that many messages too.
C29_BothStoresBounded ==
    /\ \A u \in DOMAIN conversation_states :
          Len(conversation_states[u].messages) <= 2 * MaxHistory
    /\ \A u \in DOMAIN conversations :
          Len(conversations[u]) <= 2 * MaxHistory

\* C30: within a process call on an initialized orchestrator that returns on
\* the grounded or fallback path (conversation_timeout > 0), the sweep runs
\* after the call's append and before its return, never removes the session
\* that was just appended to, and leaves no expired session of any user in
\* the store: at the return the caller's session exists, is active, and its
\* newest exchange is this call's (message, response_text).
C30_SweepAfterAppendBeforeReturn ==
    [][\A p \in Tasks :
          (/\ Resumes(p)
           /\ returned'.path \in {"grounded", "fallback"}
           /\ ConversationTimeout > 0)
          => LET u == tasks[p].user
                 am == add_message(TheStore, u, tasks[p].message,
                                   returned'.response.response, now, FALSE)
             IN /\ am.value = TRUE
                /\ StoreAfter.conversation_states =
                      [v \in {w \in DOMAIN am.store.conversation_states :
                                now - am.store.conversation_states[w].last_activity
                                   < ConversationTimeout} |->
                          am.store.conversation_states[v]]
                /\ DOMAIN conversations' = DOMAIN conversation_states'
                /\ u \in DOMAIN conversation_states'
                /\ conversation_states'[u] = am.store.conversation_states[u]
                /\ now' - conversation_states'[u].last_activity < ConversationTimeout
                /\ NewestExchange(conversation_states'[u].messages) =
                      << [type |-> "human", content |-> returned'.message,
                          timestamp |-> now],
                         [type |-> "ai", content |-> returned'.response.response,
                          timestamp |-> now] >>
                /\ \A v \in DOMAIN conversation_states' :
                      now' - conversation_states'[v].last_activity
                         < ConversationTimeout
      ]_vars

\* a call has returned and holds its exchange, and the session that
\* add_message had recorded for the other user, expired since, is gone: the
\* call's sweep has removed it
C30_Witness ==
    /\ returned.task # 0
    /\ returned.path \in {"grounded", "fallback"}
    /\ returned.user \in DOMAIN conversation_states
    /\ conversation_states[returned.user].last_activity = now
    /\ LET m == conversation_states[returned.user].messages IN
       /\ Len(m) >= 2
       /\ m[Len(m)].content = returned.response.response
    /\ last_call.op = "add_message"
    /\ last_call.value = TRUE
    /\ last_call.user # returned.user
    /\ last_call.user \notin DOMAIN conversation_states

\* clear_conversation has emptied the session of the user of the suspended
\* call p after the call read its history, and nothing has been added since
ClearedInFlight(p) ==
    /\ tasks[p].pc = "awaiting_generator"
    /\ tasks[p].chat_history # <<>>
    /\ last_call.op = "clear_conversation"
    /\ last_call.user = tasks[p].user
    /\ last_call.value = TRUE
    /\ tasks[p].user \in DOMAIN conversation_states
    /\ conversation_states[tasks[p].user].messages = <<>>

\* C31: after clear(user_id) has returned, the user's history stays empty
\* until a message that arrived after the clear has been processed: a process
\* call for that user that was already in flight when clear ran does not
\* append its exchange to the cleared session when it returns.
C31_ClearedStaysEmptyOfInFlight ==
    [][\A p \in Tasks :
          (ClearedInFlight(p) /\ Resumes(p)) =>
              /\ tasks[p].user \in DOMAIN conversation_states'
              /\ conversation_states'[tasks[p].user].messages = <<>>
      ]_vars

\* the history window process_message would build for user a from store st
HistoryWindowOf(st, a) == get_formatted_chat_history(st, a)

\* C32: the prompt built for a message of user A depends only on A's own
\* messages, their responses and their timing.  Two runs that are the same
\* for A and differ in one message of another user build the same history
\* window for A: the return of a process call of another user leaves the
\* window that A's next message gets as it was.
C32_WindowIndependentOfOthers ==
    [][\A a \in Users :
          (\E p \in Tasks : Resumes(p) /\ tasks[p].user # a) =>
              HistoryWindowOf(StoreAfter, a) = HistoryWindowOf(TheStore, a)
      ]_vars

\* the prompts that have been passed to the Generator: those of the suspended
\* calls and the one of the call that returned last, each with the message
\* and the number of retrieved chunks of its call
SentPrompts ==
    { [message |-> tasks[p].message, chunks |-> Len(tasks[p].relevant_docs),
       prompt |-> tasks[p].prompt] :
         p \in {q \in Tasks : tasks[q].pc = "awaiting_generator"} }
    \cup
    { [message |-> returned.message, chunks |-> Len(returned.relevant_docs),
       prompt |-> returned.invoked[i]] :
         i \in 1..(IF returned.task = 0 THEN 0 ELSE Len(returned.invoked)) }

\* C33: on the fallback path the prompt sent to the Generator depends only on
\* the current message: two process calls with the same message and zero
\* retrieved chunks send the identical prompt, whatever the stored histories
\* of their users are, and that prompt is the fallback template filled with
\* the message.
C33_FallbackPromptOnlyOfMessage ==
    \A x, y \in SentPrompts :
        (x.chunks = 0 /\ y.chunks = 0 /\ x.message = y.message) =>
            /\ x.prompt = y.prompt
            /\ x.prompt = FallbackPrompt(x.message)

\* a call on the fallback path has returned and recorded its exchange, and a
\* second call with the same message, whose history holds that exchange, is
\* suspended on the fallback path too
C33_Witness ==
    /\ returned.task # 0
    /\ returned.path = "fallback"
    /\ returned.generator_calls = 1
    /\ \E p \in Tasks :
          /\ tasks[p].pc = "awaiting_generator"
          /\ tasks[p].relevant_docs = <<>>
          /\ tasks[p].message = returned.message
          /\ tasks[p].chat_history # <<>>
          /\ tasks[p].chat_history[Len(tasks[p].chat_history)] =
                [human |-> returned.message, ai |-> returned.response.response]
          /\ tasks[p].prompt = returned.invoked[1]

\* C34: every Response returned by process has a confidence that is 0.0, 0.3
\* or a value in [0.4, 0.95]; a grounded Response whose generation succeeded
\* has confidence at least 0.4, strictly above the fallback value 0.3, and a
\* Response with a non-empty source list never has confidence below 0.4.
C34_ConfidenceLevels ==
    returned.task # 0 =>
        LET c == returned.response.confidence
            s == returned.response.sources
        IN /\ c = 0 \/ c = FallbackConfidence \/ (c >= 40 /\ c <= 95)
           /\ (returned.path = "grounded" /\ ~returned.generator_raised
               /\ ~returned.raised)
                 => (c >= 40 /\ c > FallbackConfidence)
           /\ (~s.none /\ s.items # <<>>) => c >= 40

\* a grounded call whose generation succeeded has returned, with sources and
\* with the confidence the scorer gives its documents and its message
C34_Witness ==
    /\ returned.task # 0
    /\ returned.path = "grounded"
    /\ ~returned.generator_raised
    /\ returned.response.sources.items # <<>>
    /\ returned.response.confidence =
          calculate_confidence(returned.relevant_docs, returned.message)
    /\ returned.response.confidence >= 40

\* the (human, ai) pairs of a sequence of recorded exchanges
PairsOf(es) ==
    [k \in 1..Len(es) |-> [human |-> es[k].human, ai |-> es[k].ai]]

\* C35: in every reachable state each user's stored message list has even
\* length and alternates human, ai, human, ai starting with a human message,
\* also after trimming to the cap, so the pairing done by
\* _get_formatted_chat_history (messages 2i and 2i+1) yields exactly the
\* exchanges as they were recorded.
C35_MessagesAlternate ==
    \A u \in DOMAIN conversation_states :
        LET m == conversation_states[u].messages
            n == Len(m) \div 2
        IN /\ Len(m) % 2 = 0
           /\ \A i \in 1..Len(m) :
                 m[i].type = IF i % 2 = 1 THEN "human" ELSE "ai"
           /\ Len(appended[u]) >= n
           /\ get_formatted_chat_history(TheStore, u) =
                 LastN(PairsOf(LastN(appended[u], n)), HistoryWindow)

\* a session has been trimmed to the cap: more exchanges were recorded than
\* it holds, and the pairing gives the newest of them
C35_Witness ==
    \E u \in DOMAIN conversation_states :
        /\ Len(appended[u]) > MaxHistory
        /\ Len(conversation_states[u].messages) = 2 * MaxHistory
        /\ conversation_states[u].messages[1].type = "human"
        /\ get_formatted_chat_history(TheStore, u)[MaxHistory].human =
              appended[u][Len(appended[u])].human

\* C39: in every reachable state the two per-user maps have the same key
\* set: a user has an entry in conversations (buffer memory) if and only if
\* the user has an entry in conversation_states, after any sequence of
\* get_or_create_memory, add_message, clear, lazy expiry cleanup and sweep.
C39_SameKeySets ==
    DOMAIN conversations = DOMAIN conversation_states

\* a sweep has removed the expired session of one user from both maps and
\* left the session of another user in both
C39_Witness ==
    /\ last_call.op = "cleanup_expired_conversations"
    /\ last_call.before # {}
    /\ DOMAIN conversation_states # {}
    /\ DOMAIN conversations = DOMAIN conversation_states
    /\ last_call.before \cap DOMAIN conversations = {}

\* the step is a run of whatsapp_webhook
WebhookStep ==
    steps' = steps + 1 /\ http'.route = "whatsapp_webhook"

\* MessageSid, From and To all have a value
Parsable(form_data) ==
    /\ form_data.MessageSid # ""
    /\ form_data.From # EmptyText
    /\ form_data.To # ""

SendsFor(i) ==
    LET mine(c) == c.task = i IN SelectSeq(twilio_service.calls, mine)

\* C37: for every message accepted by the webhook, exactly one send attempt
\* to the sender is made through the messaging gateway, in the step in which
\* process returns for that message, and it carries the text of the Response
\* that process returned; no message gets two attempts, and none is sent
\* anything before its process call has returned, also when the gateway send
\* fails.  No other send_message call is made.
C37_OneSendPerMessage ==
    /\ \A i \in DOMAIN background_tasks :
          IF background_tasks[i].pc = "done"
          THEN /\ Len(SendsFor(i)) = 1
               /\ SendsFor(i)[1].call.body = background_tasks[i].response
               /\ SendsFor(i)[1].call.to.number =
                     background_tasks[i].message.from_number.number
               /\ twilio_service.client # "None" =>
                     /\ SendsFor(i)[1].call.created
                     /\ SendsFor(i)[1].call.to.prefix = "whatsapp:"
          ELSE SendsFor(i) = <<>>
    /\ \A k \in DOMAIN twilio_service.calls :
          twilio_service.calls[k].task \in DOMAIN background_tasks

\* the gateway has failed to send the response of a message: that one
\* attempt is all that was made for it
C37_Witness ==
    \E i \in DOMAIN background_tasks :
        /\ background_tasks[i].pc = "done"
        /\ background_tasks[i].response # <<>>
        /\ Len(twilio_service.calls) = 1
        /\ twilio_service.calls[1].task = i
        /\ twilio_service.calls[1].call.created
        /\ twilio_service.calls[1].call.status = "error"
        /\ twilio_service.calls[1].call.body = background_tasks[i].response

\* C38: a /api/chat request without a message is answered with HTTP status
\* 400 ("Missing message") and triggers no process call and no change to the
\* session store.
C38_MissingMessageIs400 ==
    [][(/\ steps' = steps + 1
        /\ http'.route = "chat"
        /\ http'.request.message = NoBody)
       => /\ http'.status = 400
          /\ tasks' = tasks
          /\ returned' = returned
          /\ UNCHANGED <<conversations, conversation_states>>
      ]_vars

====
